---- MODULE Spec2Model ----
(***************************************************************************)
(* Verification model of the OPC UA server core (atolucky6/opcua):         *)
(*   - the project manager state machine, ownership tree and id indexes    *)
(*     (server/project_manager.go, server/object_node.go, server/utils.go) *)
(*   - the service handlers' session gate and worker fan-out               *)
(*   - writes on a VariableNode (writeValue / writeRange / parseBounds)    *)
(*   - subscriptions, publish and republish                                *)
(* The module holds several specifications over one set of variables; a    *)
(* specification leaves the variables of the other parts unchanged.        *)
(***************************************************************************)
EXTENDS Integers, Sequences, FiniteSets, TLC

(***************************************************************************)
(* Bounds of the model                                                     *)
(***************************************************************************)
\* number of ObjectNode objects that can exist at once
MaxObj == 5
\* number of distinct InternalId values (uuid)
MaxUuid == 5

\* BrowseNames a caller can give to a new or renamed node
NewNames == {"a", "b"}

(***************************************************************************)
(* generic helpers: maps as sets of <<key, value>> pairs                   *)
(***************************************************************************)
NoNode == 0

MapHas(m, k) == \E e \in m : e[1] = k
MapGet(m, k) == IF MapHas(m, k) THEN (CHOOSE e \in m : e[1] = k)[2] ELSE NoNode
MapPut(m, k, v) == {e \in m : e[1] # k} \cup {<<k, v>>}
MapDel(m, k) == {e \in m : e[1] # k}

SeqRemoveAt(s, i) == IF i < 1 \/ i > Len(s) THEN s
                     ELSE SubSeq(s, 1, i - 1) \o SubSeq(s, i + 1, Len(s))
IndexOf(s, x) == IF \E i \in 1..Len(s) : s[i] = x
                 THEN CHOOSE i \in 1..Len(s) : s[i] = x /\ \A j \in 1..(i - 1) : s[j] # x
                 ELSE 0
SeqToSet(s) == {s[i] : i \in 1..Len(s)}

(***************************************************************************)
(* Project manager state (server/project_manager.go, ProjectManager)       *)
(***************************************************************************)
VARIABLES
    state,                  \* p.state : the current state of the state machine
    currentError,           \* p.currentError
    rootNode,               \* p.rootNode : pointer of the root, NoNode when nil
    nodes,                  \* the ObjectNode objects, by pointer
    entryNodes,             \* p.entryNodes
    nodeIdToNodeMapper,     \* p.nodeIdToNodeMapper
    internalIdToNodeMapper, \* p.internalIdToNodeMapper
    namespaceNodes,         \* the NamespaceManager's flat index NodeId -> node
    file,                   \* the persisted project snapshot (config.App.ProjectPath)
    lastOp,                 \* the operation the last step ran
    lastErr,                \* what that operation returned
    called,                 \* the public ProjectManager methods the last step ran
    fired,                  \* the triggers the last step fired, in order
    pluginCalls             \* the plugin Start/Stop calls the last step issued

pmVars == <<state, currentError, rootNode, nodes, entryNodes, nodeIdToNodeMapper,
            internalIdToNodeMapper, namespaceNodes, file, lastOp, lastErr, called,
            fired, pluginCalls>>


(***************************************************************************)
(* State of the service handlers (unnamed/part_004, UAServer)              *)
(***************************************************************************)
VARIABLES
    sessionTokens,      \* the authentication tokens the session manager holds
    secureChannelId,    \* session.SecureChannelId(), 0 until activated
    svcReq,             \* the request the last handler call was given
    svcOut,             \* what was written on the channel for that request
    wg,                 \* the request's sync.WaitGroup counter
    submitted,          \* items handed to the worker pool and not yet run
    results,            \* items whose result slot has been filled
    waiter              \* the completion goroutine is waiting on wg

svcVars == <<sessionTokens, secureChannelId, svcReq, svcOut, wg, submitted, results, waiter>>

(***************************************************************************)
(* State of one VariableNode and of the workers writing its Value          *)
(* (server/variable_node.go, unnamed/part_004 writeValue)                  *)
(***************************************************************************)
VARIABLES
    Value,          \* n.Value : the array the variable holds
    valueAtStart,   \* the array it held before any worker wrote
    wpc,            \* where each writing worker is: "idle", "set" or "done"
    wreq,           \* the WriteValue each worker was given
    wresult,        \* the result of writeRange each worker is about to store
    wstatus         \* the status each worker returned

wrVars == <<Value, valueAtStart, wpc, wreq, wresult, wstatus>>

(***************************************************************************)
(* State of the subscription manager, the sessions' parked publish         *)
(* requests and what their clients observed                                *)
(***************************************************************************)
VARIABLES
    subscriptions,  \* the subscription manager's subscriptions, by id
    parked,         \* per session, the number of parked publish requests
    lastSeq,        \* per subscription, the SequenceNumber its client saw last
    subOut,         \* what the last step wrote on a channel
    stateChanges,   \* per session, the pending state-change notifications
    closedSessions  \* the sessions CloseSession deleted

subVars == <<subscriptions, parked, lastSeq, subOut, stateChanges, closedSessions>>

(***************************************************************************)
(* State of a rename in progress (ObjectNode.SetBrowseName running as its  *)
(* separate lock acquisitions) and of a concurrent lookup                  *)
(***************************************************************************)
VARIABLES
    rn,         \* the rename in progress: the nodes still to re-key and how far
                \* SetNodeID and the namespace index are for the first of them
    rnSeen      \* what the last concurrent lookup of a node found

rnVars == <<rn, rnSeen>>

(***************************************************************************)
(* State of a RemoveNode in progress and of the goroutines it launched     *)
(***************************************************************************)
VARIABLES
    rm          \* where RemoveNode is, the node it removes, and the plugin
                \* calls launched with "go" that have not run yet

rmVars == <<rm>>

(***************************************************************************)
(* The diagnostics counters of the sessions (session.requestCount, ...)    *)
(***************************************************************************)
VARIABLES
    requestCount,       \* per session, session.requestCount
    errorCount,         \* per session, session.errorCount
    serviceCount,       \* per session and service, session.<service>Count
    serviceErrorCount   \* per session and service, session.<service>ErrorCount

cntVars == <<requestCount, errorCount, serviceCount, serviceErrorCount>>

(***************************************************************************)
(* State of one Read, Write, Browse or Call request that passed the        *)
(* handler's checks: its items, its result vector and its WaitGroup        *)
(***************************************************************************)
VARIABLES
    itemReq,        \* the request: its service, its items, TimestampsToReturn
    itemResults,    \* results := make([]T, l), filled by the pool workers
    itemWg,         \* the request's sync.WaitGroup counter
    itemSubmitted,  \* the items whose task is in the pool and has not run
    itemWaiter,     \* the completion goroutine is waiting on wg
    itemOut         \* what was written on the channel for the request

itemVars == <<itemReq, itemResults, itemWg, itemSubmitted, itemWaiter, itemOut>>

(***************************************************************************)
(* State of the browse continuation points of a session and of the         *)
(* clients paging through the references of a node                         *)
(***************************************************************************)
VARIABLES
    browseContinuationPoints,   \* the session's continuation points, by token
    chain                       \* per client: the node's reference list, the
                                \* pages it was given, the continuation point
                                \* it was given last, and where the task of
                                \* its BrowseNext item is

brVars == <<browseContinuationPoints, chain>>

(***************************************************************************)
(* State of the tasks of BrowseNext items that name continuation points    *)
(* of the session, whoever was given them                                  *)
(***************************************************************************)
VARIABLES
    cpTask      \* per task: the continuation point it names, whether the
                \* request releases, where the task is, and what it stored
                \* in its slot of the result vector

cpVars == <<cpTask>>

(***************************************************************************)
(* What ActivateSession records in a session (unnamed/part_004; the        *)
(* Session type after the specification)                                   *)
(***************************************************************************)
VARIABLES
    userIdentity,   \* session.UserIdentity()
    userRoles,      \* session.UserRoles()
    sessionNonce,   \* session.SessionNonce(), as the number of the nonce
    nonces          \* how many nonces getNextNonce has given

actVars == <<userIdentity, userRoles, sessionNonce, nonces>>

(***************************************************************************)
(* One ObjectNode that is updated through field maps                       *)
(* (server/object_node.go Update)                                          *)
(***************************************************************************)
VARIABLES
    updNode,    \* the node: BrowseName, DisplayName, Description, NodeId,
                \* isUpdating and the DataValues of its properties
    updOut      \* the last Update: the valid fields it collected, the errors
                \* it returned and how often pluginProps.UpdateProps was called

updVars == <<updNode, updOut>>

(***************************************************************************)
(* A value that is written and read back through index ranges              *)
(* (unnamed/part_004 writeRange, readRange)                                *)
(***************************************************************************)
VARIABLES
    rangeSource,    \* the stored value: its Go type and the value
    rangeOut        \* the last write: index range, written value, status,
                    \* and what readRange returns for the same range

rangeVars == <<rangeSource, rangeOut>>

(***************************************************************************)
(* A NodeID, its string form and what is parsed from it (ua/nodeid.go)     *)
(***************************************************************************)
VARIABLES
    nidValue,   \* a NodeID: IDType, NamespaceIndex, ID
    nidText,    \* its String()
    nidParsed   \* ParseNodeIDString(nidText)

nidVars == <<nidValue, nidText, nidParsed>>

(***************************************************************************)
(* An index range that is parsed against a length                          *)
(* (unnamed/part_004 parseBounds)                                          *)
(***************************************************************************)
VARIABLES
    boundsIn,   \* the arguments: the string s and the length
    boundsOut   \* what parseBounds returned: i, j and the status

boundsVars == <<boundsIn, boundsOut>>

(***************************************************************************)
(* A relative path that is followed from a starting node                   *)
(* (unnamed/part_004 UAServer.follow, UAServer.target)                     *)
(***************************************************************************)
VARIABLES
    pathNodes,  \* the node ids the namespace manager finds
    fw          \* the call of follow: its arguments, where it stands (the
                \* node and the elements of the current level, the target it
                \* took) and what it returned

pathVars == <<pathNodes, fw>>

\* what the steps of one part leave unchanged: the variables of the other parts
others == <<cntVars, itemVars, brVars, cpVars, actVars, updVars, rangeVars, nidVars, boundsVars, pathVars>>
notPM == <<svcVars, wrVars, subVars, rnVars, rmVars, others>>
notSvc == <<pmVars, wrVars, subVars, rnVars, rmVars, others>>
notWr == <<pmVars, svcVars, subVars, rnVars, rmVars, others>>
notSub == <<pmVars, svcVars, wrVars, rnVars, rmVars, others>>
notRn == <<svcVars, wrVars, subVars, rmVars, others>>
notRm == <<svcVars, wrVars, subVars, rnVars, others>>
notCnt ==
    <<pmVars, wrVars, subVars, rnVars, rmVars, itemVars, brVars, cpVars, actVars, updVars, rangeVars, nidVars, boundsVars, pathVars>>
notItem ==
    <<pmVars, svcVars, wrVars, subVars, rnVars, rmVars, cntVars, brVars, cpVars, actVars, updVars, rangeVars, nidVars, boundsVars, pathVars>>
notBr ==
    <<pmVars, svcVars, wrVars, subVars, rnVars, rmVars, cntVars, itemVars, cpVars, actVars, updVars, rangeVars, nidVars, boundsVars, pathVars>>
notCp == <<pmVars, svcVars, wrVars, subVars, rnVars, rmVars, cntVars, itemVars, chain,
          actVars, updVars, rangeVars, nidVars, boundsVars, pathVars>>
notAct == <<pmVars, wrVars, subVars, rnVars, rmVars, cntVars, itemVars, brVars, cpVars,
           updVars, rangeVars, nidVars, boundsVars, pathVars>>
notUpd == <<pmVars, svcVars, wrVars, subVars, rnVars, rmVars, cntVars, itemVars, brVars,
           cpVars, actVars, rangeVars, nidVars, boundsVars, pathVars>>
notRange == <<pmVars, svcVars, wrVars, subVars, rnVars, rmVars, cntVars, itemVars, brVars,
             cpVars, actVars, updVars, nidVars, boundsVars, pathVars>>
notNid == <<pmVars, svcVars, wrVars, subVars, rnVars, rmVars, cntVars, itemVars, brVars,
           cpVars, actVars, updVars, rangeVars, boundsVars, pathVars>>
notBounds == <<pmVars, svcVars, wrVars, subVars, rnVars, rmVars, cntVars, itemVars, brVars,
              cpVars, actVars, updVars, rangeVars, nidVars, pathVars>>
notPath == <<pmVars, svcVars, wrVars, subVars, rnVars, rmVars, cntVars, itemVars, brVars,
            cpVars, actVars, updVars, rangeVars, nidVars, boundsVars>>

PROJECT_STATE_UNLOADED == "Unloaded"
PROJECT_STATE_LOADING == "Loading"
PROJECT_STATE_LOADED == "Loaded"
PROJECT_STATE_RELOAD == "Reload"
PROJECT_STATE_ERROR == "Error"

triggerLoadProject == "Load project"
triggerErrorOccured == "Error occured"
triggerLoadSuccess == "Load success"
triggerReloadProject == "Reload project"
triggerLoadPlugins == "Load plugins"
triggerUnloadPlugins == "Unload plugins"
triggerReloadPlugins == "Reload plugins"

NodeTypeRoot == "Root"
NodeTypeCategoryConnectivity == "Connectivity"
NodeTypeCategoryDataLogger == "Data Loggers"
NodeTypeCategoryAlarms == "Alarms"
NodeTypeChannel == "Channel"
NodeTypeDevice == "Device"

Ptr == 1..MaxObj

\* an unused object slot
NoObj == [BrowseName |-> "", NodeId |-> <<>>, internalId |-> 0, parent |-> NoNode,
          childs |-> <<>>, nodeType |-> "None", entry |-> FALSE]

NoNodes == [p \in Ptr |-> NoObj]

\* a snapshot file: absent, unreadable, or a JsonObjectNode tree in
\* ForEachSelfDepth order, each entry naming the position of its parent
NoFile == [kind |-> "absent", tree |-> <<>>]
BadFile == [kind |-> "garbage", tree |-> <<>>]

\* NewRootNode(ctx, true) saved by NewDefaultJsonProject: the root and its
\* three category nodes, with the fixed InternalIds of the source
DefaultTree == <<
    [name |-> "Root", nodeType |-> NodeTypeRoot, internalId |-> 1, parent |-> 0],
    [name |-> "Connectivity", nodeType |-> NodeTypeCategoryConnectivity, internalId |-> 2, parent |-> 1],
    [name |-> "Data Loggers", nodeType |-> NodeTypeCategoryDataLogger, internalId |-> 3, parent |-> 1],
    [name |-> "Alarms", nodeType |-> NodeTypeCategoryAlarms, internalId |-> 4, parent |-> 1] >>

NewDefaultJsonProject == [kind |-> "tree", tree |-> DefaultTree]

(***************************************************************************)
(* The plugin of a node (external collaborator): which node types are      *)
(* entries and which child types a node type accepts                       *)
(***************************************************************************)
IsPluginEntry(nodeType) == nodeType = NodeTypeChannel

CanAddNodeType(parentType, childType) ==
    <<parentType, childType>> \in
        { <<NodeTypeRoot, NodeTypeCategoryConnectivity>>,
          <<NodeTypeRoot, NodeTypeCategoryDataLogger>>,
          <<NodeTypeRoot, NodeTypeCategoryAlarms>>,
          <<NodeTypeCategoryConnectivity, NodeTypeChannel>>,
          <<NodeTypeChannel, NodeTypeDevice>> }

\* the node types a caller adds at run time
AddTypes == {NodeTypeChannel, NodeTypeDevice}

\* names given to Update and SetBrowseName, and the node types that are renamed
UpdateNames == {" b", "Alarms", "a.b"}
RawNames == {"b", "Alarms"}
RenameTypes == {NodeTypeCategoryConnectivity, NodeTypeChannel}
\* the node types a caller removes at run time
RemoveTypes == {NodeTypeRoot, NodeTypeChannel, NodeTypeDevice}

(***************************************************************************)
(* ObjectNode (server/object_node.go)                                      *)
(***************************************************************************)
\* NewDefaultObjectNode: the NodeId is the parent's NodeId, the separator and
\* the name; a NodeId string is modelled as the sequence of its segments
NewDefaultObjectNode(ns, parent, name, nodeType, internalID) ==
    [BrowseName |-> name,
     NodeId |-> IF parent # NoNode THEN ns[parent].NodeId \o <<name>> ELSE <<name>>,
     internalId |-> internalID,
     parent |-> parent,
     childs |-> <<>>,
     nodeType |-> nodeType,
     entry |-> IsPluginEntry(nodeType)]

CanAddChild(ns, n, nodeType) == CanAddNodeType(ns[n].nodeType, nodeType)

RECURSIVE ForEachSelfDepth(_, _)
RECURSIVE ForEachChilds(_, _)
\* ForEachSelfDepth: the node, then each child's ForEachSelfDepth, in order
ForEachSelfDepth(ns, n) == <<n>> \o ForEachChilds(ns, ns[n].childs)
ForEachChilds(ns, cs) ==
    IF cs = <<>> THEN <<>>
    ELSE ForEachSelfDepth(ns, Head(cs)) \o ForEachChilds(ns, Tail(cs))

\* First(predicate) with the predicate of IsUniqueName
IsUniqueName(ns, name, parent, originNode) ==
    parent = NoNode \/
    ~ \E i \in 1..Len(ns[parent].childs) :
          /\ ns[ns[parent].childs[i]].BrowseName = name
          /\ ns[parent].childs[i] # originNode

\* regex_InvalidName: a name must not contain . / \ :
InvalidNames == {"a.b"}
IsValidName(value) == value # "" /\ value \notin InvalidNames

\* strings.Trim(value, " ") on the names of the model
Trim(value) == IF value = " b" THEN "b" ELSE value

\* CheckBrowseName: the error it returns ("nil" when the value is accepted)
CheckBrowseName(ns, value, targetType, target, parent) ==
    IF ~IsValidName(Trim(value)) THEN "ErrInvalidName"
    ELSE IF targetType # NodeTypeRoot /\ ~IsUniqueName(ns, Trim(value), parent, target)
         THEN "ErrNameTaken"
         ELSE "nil"

(***************************************************************************)
(* NamespaceManager: the flat index NodeId -> node (spec 4.1)              *)
(***************************************************************************)
\* addNode(node): the index holds one node per NodeId; a NodeId that is
\* already present is rejected
NamespaceAddNode(idx, id, n) ==
    IF MapHas(idx, id) THEN [ok |-> FALSE, idx |-> idx]
    ELSE [ok |-> TRUE, idx |-> MapPut(idx, id, n)]

RECURSIVE NamespaceDeleteAll(_, _, _)
NamespaceDeleteAll(idx, ns, order) ==
    IF order = <<>> THEN idx
    ELSE NamespaceDeleteAll(MapDel(idx, ns[Head(order)].NodeId), ns, Tail(order))

\* deleteNode(node, recursive): the node and its descendants leave the index
NamespaceDeleteNode(idx, ns, n) == NamespaceDeleteAll(idx, ns, ForEachSelfDepth(ns, n))

\* ProjectManager.ReplaceNodeID: move the entry of oldId to newId, if any
ReplaceNodeID(mapper, oldId, newId) ==
    IF MapHas(mapper, oldId)
    THEN MapPut(MapDel(mapper, oldId), newId, MapGet(mapper, oldId))
    ELSE mapper

ReplaceNodeIDPrefix_offByOne(id, oldPrefix, newPrefix) ==
    newPrefix \o SubSeq(id, Len(oldPrefix), Len(id))

\* ObjectNode.ReplaceNodeIDPrefix: the new prefix, then the rest of the id
ReplaceNodeIDPrefix(id, oldPrefix, newPrefix) ==
    newPrefix \o SubSeq(id, Len(oldPrefix) + 1, Len(id))

\* ObjectNode.SetNodeID on the pair (objects, NodeId index of the project)
SetNodeID(S, n, id) ==
    IF S.nodes[n].NodeId # id
    THEN [S EXCEPT !.nodes[n].NodeId = id,
                   !.nmap = ReplaceNodeID(S.nmap, S.nodes[n].NodeId, id),
                   !.called = @ \cup {"ReplaceNodeID"}]
    ELSE S

RECURSIVE UpdateNodeIDAll(_, _, _, _)
UpdateNodeIDAll(S, order, oldPrefix, newPrefix) ==
    IF order = <<>> THEN S
    ELSE LET n == Head(order)
             oldId == S.nodes[n].NodeId
             newId == ReplaceNodeIDPrefix(oldId, oldPrefix, newPrefix)
             S1 == SetNodeID(S, n, newId)
             S2 == [S1 EXCEPT !.ns = MapPut(MapDel(S1.ns, oldId), newId, n)]
         IN UpdateNodeIDAll(S2, Tail(order), oldPrefix, newPrefix)

\* updateNodeId(node, newId): the node and its descendants get the new id
\* prefix and every index entry is rewritten
NamespaceUpdateNodeID(S, n, newId) ==
    UpdateNodeIDAll(S, ForEachSelfDepth(S.nodes, n), S.nodes[n].NodeId, newId)

\* ObjectNode.SetBrowseName
SetBrowseNameOn(S, n, value) ==
    IF S.nodes[n].BrowseName # value
    THEN LET par == S.nodes[n].parent
             id == IF par # NoNode THEN S.nodes[par].NodeId \o <<value>> ELSE <<value>>
             S1 == [S EXCEPT !.nodes[n].BrowseName = value]
         IN NamespaceUpdateNodeID(S1, n, id)
    ELSE S

(***************************************************************************)
(* JsonProject / JsonObjectNode (server/consts.go, server/plugin_manager.go)*)
(***************************************************************************)
RECURSIVE ToObjectNode(_, _, _)
\* JsonObjectNode.ToObjectNode over the snapshot, in document order: build
\* the node, Validate it, AddChild it to its parent, then its children
ToObjectNode(tree, i, ns) ==
    IF i > Len(tree) THEN [ok |-> TRUE, nodes |-> ns]
    ELSE LET j == tree[i]
             node == NewDefaultObjectNode(ns, j.parent, j.name, j.nodeType, j.internalId)
             fe == CheckBrowseName(ns, j.name, j.nodeType, i, j.parent)
         IN IF fe # "nil" THEN [ok |-> FALSE, nodes |-> ns]
            ELSE LET ns1 == [ns EXCEPT ![i] = node]
                     ns2 == IF j.parent # NoNode /\ CanAddChild(ns1, j.parent, j.nodeType)
                            THEN [ns1 EXCEPT ![j.parent].childs = Append(@, i)]
                            ELSE ns1
                 IN ToObjectNode(tree, i + 1, ns2)

\* NewJsonObjectNode(root, true): the tree in document order
NewJsonObjectNode(ns, root) ==
    LET order == ForEachSelfDepth(ns, root)
    IN [i \in 1..Len(order) |->
            [name |-> ns[order[i]].BrowseName,
             nodeType |-> ns[order[i]].nodeType,
             internalId |-> ns[order[i]].internalId,
             parent |-> IF i = 1 THEN 0
                        ELSE CHOOSE k \in 1..Len(order) :
                                 order[i] \in SeqToSet(ns[order[k]].childs)]]

(***************************************************************************)
(* ProjectManager (server/project_manager.go)                              *)
(***************************************************************************)
\* the project as a record, so that the handlers compose
Cur == [rootNode |-> rootNode, nodes |-> nodes, entryNodes |-> entryNodes,
        nmap |-> nodeIdToNodeMapper, imap |-> internalIdToNodeMapper,
        ns |-> namespaceNodes, file |-> file, plugin |-> <<>>, called |-> {}]

Apply(S) ==
    /\ rootNode' = S.rootNode
    /\ nodes' = S.nodes
    /\ entryNodes' = S.entryNodes
    /\ nodeIdToNodeMapper' = S.nmap
    /\ internalIdToNodeMapper' = S.imap
    /\ namespaceNodes' = S.ns
    /\ file' = S.file
    /\ pluginCalls' = S.plugin

Permit_noErrorFromLoading(s, t) ==
    CASE s = PROJECT_STATE_UNLOADED /\ t = triggerLoadProject -> PROJECT_STATE_LOADING
      [] s = PROJECT_STATE_LOADING /\ t = triggerLoadSuccess -> PROJECT_STATE_LOADED
      [] s = PROJECT_STATE_LOADED /\ t = triggerReloadProject -> PROJECT_STATE_RELOAD
      [] s = PROJECT_STATE_LOADED /\ t \in {triggerReloadPlugins, triggerLoadPlugins,
                                             triggerUnloadPlugins} -> PROJECT_STATE_LOADED
      [] s = PROJECT_STATE_ERROR /\ t = triggerReloadProject -> PROJECT_STATE_RELOAD
      [] s = PROJECT_STATE_RELOAD /\ t = triggerLoadProject -> PROJECT_STATE_LOADING
      [] OTHER -> "none"

\* SetContext: the transitions the state machine is configured with;
\* the destination of trigger t in state s, "none" when not permitted
Permit(s, t) ==
    CASE s = PROJECT_STATE_UNLOADED /\ t = triggerLoadProject -> PROJECT_STATE_LOADING
      [] s = PROJECT_STATE_LOADING /\ t = triggerErrorOccured -> PROJECT_STATE_ERROR
      [] s = PROJECT_STATE_LOADING /\ t = triggerLoadSuccess -> PROJECT_STATE_LOADED
      [] s = PROJECT_STATE_LOADED /\ t = triggerReloadProject -> PROJECT_STATE_RELOAD
      [] s = PROJECT_STATE_LOADED /\ t \in {triggerReloadPlugins, triggerLoadPlugins,
                                             triggerUnloadPlugins} -> PROJECT_STATE_LOADED
      [] s = PROJECT_STATE_ERROR /\ t = triggerReloadProject -> PROJECT_STATE_RELOAD
      [] s = PROJECT_STATE_RELOAD /\ t = triggerLoadProject -> PROJECT_STATE_LOADING
      [] OTHER -> "none"

\* state.Fire(t) in state s: whether the trigger is accepted and where it leads
Fire(s, t) == [trigger |-> t, src |-> s, ok |-> Permit(s, t) # "none",
               dst |-> IF Permit(s, t) # "none" THEN Permit(s, t) ELSE s]

RECURSIVE PluginCallAll(_, _)
PluginCallAll(what, entries) ==
    IF entries = <<>> THEN <<>>
    ELSE <<[call |-> what, node |-> Head(entries)]>> \o PluginCallAll(what, Tail(entries))

\* onLoadPlugins: Start every entry node
onLoadPlugins(S) == [S EXCEPT !.plugin = @ \o PluginCallAll("Start", S.entryNodes)]

\* onUnloadPlugins: Stop every entry node
onUnloadPlugins(S) == [S EXCEPT !.plugin = @ \o PluginCallAll("Stop", S.entryNodes)]

\* onReloadPlugins
onReloadPlugins(S) == onLoadPlugins(onUnloadPlugins(S))

\* onReload
onReload(S) == onUnloadPlugins(S)

cleanup_keepsInternalIds(S) ==
    [S EXCEPT !.entryNodes = <<>>,
              !.nmap = {},
              !.ns = IF S.rootNode # NoNode
                     THEN NamespaceDeleteNode(S.ns, S.nodes, S.rootNode) ELSE S.ns,
              !.rootNode = NoNode]

\* cleanup: entry list and both indexes emptied, the root's tree deleted from
\* the namespace index, the root released
cleanup(S) ==
    [S EXCEPT !.entryNodes = <<>>,
              !.nmap = {},
              !.imap = {},
              !.ns = IF S.rootNode # NoNode
                     THEN NamespaceDeleteNode(S.ns, S.nodes, S.rootNode) ELSE S.ns,
              !.rootNode = NoNode]

RECURSIVE CacheAll(_, _)
\* onLoading, first walk: entry list and both indexes
CacheAll(S, order) ==
    IF order = <<>> THEN S
    ELSE LET c == Head(order)
             S1 == [S EXCEPT
                      !.entryNodes = IF S.nodes[c].entry THEN Append(@, c) ELSE @,
                      !.nmap = MapPut(@, S.nodes[c].NodeId, c),
                      !.imap = MapPut(@, S.nodes[c].internalId, c)]
         IN CacheAll(S1, Tail(order))

RECURSIVE NamespaceAddAll(_, _, _)
\* onLoading, second walk: every node into the namespace index
NamespaceAddAll(idx, ns, order) ==
    IF order = <<>> THEN idx
    ELSE NamespaceAddAll(NamespaceAddNode(idx, ns[Head(order)].NodeId, Head(order)).idx,
                         ns, Tail(order))

\* JsonProject.Validate: the error, or the tree of new objects
Validate(f) ==
    IF f.tree = <<>> THEN [err |-> "ErrRootNodeNotFound", nodes |-> NoNodes]
    ELSE IF ~ \E i \in 1..Len(f.tree) : f.tree[i].parent = 1
         THEN [err |-> "ErrInvalidRootNode", nodes |-> NoNodes]
         ELSE LET b == ToObjectNode(f.tree, 1, NoNodes)
              IN IF b.ok THEN [err |-> "nil", nodes |-> b.nodes]
                 ELSE [err |-> "ErrFields", nodes |-> NoNodes]

\* onLoading: the entry action of Loading; err is what it returns
onLoading(S) ==
    LET f == IF S.file.kind = "absent" THEN NewDefaultJsonProject ELSE S.file
        S0 == [S EXCEPT !.file = f]
    IN IF f.kind = "garbage" THEN [err |-> "ErrReadProject", S |-> S0]
       ELSE LET v == Validate(f)
            IN IF v.err # "nil" THEN [err |-> v.err, S |-> S0]
               ELSE LET S1 == [cleanup(S0) EXCEPT !.rootNode = 1, !.nodes = v.nodes]
                        order == ForEachSelfDepth(S1.nodes, 1)
                        S2 == CacheAll(S1, order)
                        S3 == [S2 EXCEPT !.ns = NamespaceAddAll(S2.ns, S2.nodes, order)]
                    IN [err |-> "nil", S |-> onLoadPlugins(S3)]

checkState_never == "nil"

\* checkState: the recorded error in state Error, nil otherwise
checkState == IF state = PROJECT_STATE_ERROR THEN currentError ELSE "nil"

\* the objects of the ownership tree under the root, in ForEachSelfDepth order
TreeOrder == IF rootNode = NoNode THEN <<>> ELSE ForEachSelfDepth(nodes, rootNode)
TreeNodes == SeqToSet(TreeOrder)

\* the objects that exist (in the tree, or removed from it and still referenced)
Allocated == {n \in Ptr : nodes[n] # NoObj}

FreePtrs == Ptr \ Allocated
FreeUuids == (1..MaxUuid) \ ({nodes[n].internalId : n \in Allocated}
                             \cup {file.tree[i].internalId : i \in 1..Len(file.tree)}
                             \cup {e[1] : e \in internalIdToNodeMapper})
Min(S) == CHOOSE x \in S : \A y \in S : x <= y

\* what a step that runs one operation records
Ran(op, err, calls, fs) ==
    /\ lastOp' = op
    /\ lastErr' = err
    /\ called' = calls
    /\ fired' = fs
    /\ UNCHANGED notPM

\* the load step shared by Load and ReloadProject: Fire(triggerLoadProject)
\* from state s, then triggerErrorOccured or triggerLoadSuccess
LoadStep(op, s, S, before) ==
    LET f1 == Fire(s, triggerLoadProject)
    IN IF ~f1.ok
       THEN LET f2 == Fire(s, triggerErrorOccured)
            IN /\ state' = f2.dst
               /\ currentError' = IF f2.ok THEN "ErrTriggerNotPermitted" ELSE currentError
               /\ Apply(S)
               /\ Ran(op, IF op = "Load" THEN "nil" ELSE "ErrTriggerNotPermitted",
                      {op}, before \o <<f1, f2>>)
       ELSE LET r == onLoading(S)
            IN IF r.err # "nil"
               THEN LET f2 == Fire(f1.dst, triggerErrorOccured)
                    IN /\ state' = f2.dst
                       /\ currentError' = IF f2.ok THEN r.err ELSE currentError
                       /\ Apply(r.S)
                       /\ Ran(op, IF op = "Load" THEN "nil" ELSE r.err, {op},
                              before \o <<f1, f2>>)
               ELSE LET f3 == Fire(f1.dst, triggerLoadSuccess)
                    IN /\ state' = f3.dst
                       /\ UNCHANGED currentError
                       /\ Apply(r.S)
                       /\ Ran(op, "nil", {op}, before \o <<f1, f3>>)

\* ProjectManager.Load
Load == LoadStep("Load", state, Cur, <<>>)

\* ProjectManager.Unload: the state machine is deactivated (its state stays),
\* the entries are stopped and everything is cleaned up
Unload ==
    /\ Apply([cleanup(onUnloadPlugins(Cur)) EXCEPT !.nodes = NoNodes])
    /\ UNCHANGED <<state, currentError>>
    /\ Ran("Unload", "nil", {"Unload"}, <<>>)

\* ProjectManager.ReloadProject
ReloadProject ==
    LET f0 == Fire(state, triggerReloadProject)
    IN IF ~f0.ok
       THEN /\ UNCHANGED <<state, currentError>>
            /\ Apply(Cur)
            /\ Ran("ReloadProject", "ErrTriggerNotPermitted", {"ReloadProject"}, <<>>)
       ELSE LoadStep("ReloadProject", f0.dst, onReload(Cur), <<f0>>)

\* the error of "ok, err := p.state.CanFire(t)" when ok is false: CanFire
\* reports a trigger that is not permitted by ok alone
CanFireErr == "nil"

\* ReloadPlugins / UnloadPlugins / LoadPlugins
PluginsOp(op, t) ==
    /\ UNCHANGED <<state, currentError>>
    /\ IF checkState # "nil"
       THEN Apply(Cur) /\ Ran(op, checkState, {op}, <<>>)
       ELSE IF ~Fire(state, t).ok
            THEN Apply(Cur) /\ Ran(op, CanFireErr, {op}, <<>>)
            ELSE /\ Apply(CASE t = triggerReloadPlugins -> onReloadPlugins(Cur)
                            [] t = triggerUnloadPlugins -> onUnloadPlugins(Cur)
                            [] OTHER -> onLoadPlugins(Cur))
                 /\ Ran(op, "nil", {op}, <<Fire(state, t)>>)

ReloadPlugins == PluginsOp("ReloadPlugins", triggerReloadPlugins)
UnloadPlugins == PluginsOp("UnloadPlugins", triggerUnloadPlugins)
LoadPlugins == PluginsOp("LoadPlugins", triggerLoadPlugins)

RECURSIVE StopEntries(_, _, _)
\* RemoveNode's walk over the removed subtree: an entry node leaves the
\* entry list and the plugin of the removed node is told to Stop it
StopEntries(S, order, node) ==
    IF order = <<>> THEN S
    ELSE LET child == Head(order)
             S1 == IF S.nodes[child].entry
                   THEN [S EXCEPT
                           !.entryNodes = SeqRemoveAt(@, IndexOf(@, child)),
                           !.plugin = Append(@, [call |-> "Stop", node |-> node])]
                   ELSE S
         IN StopEntries(S1, Tail(order), node)

\* ObjectNode.AddChild(child), once the child's type is accepted
AddChild(ns, parent, child) == [ns EXCEPT ![parent].childs = Append(@, child)]

RemoveChild_keeps(ns, parent, child) == ns

\* ObjectNode.RemoveChild(child), the child being among the children
RemoveChild(ns, parent, child) ==
    [ns EXCEPT ![parent].childs = SeqRemoveAt(@, IndexOf(@, child))]

\* ProjectManager.AddNode(parent, node), the node built by NewDefaultObjectNode
AddNode(parent, name, nodeType) ==
    /\ parent \in TreeNodes
    /\ FreePtrs # {} /\ FreeUuids # {}
    /\ UNCHANGED <<state, currentError>>
    /\ LET n == Min(FreePtrs)
           node == NewDefaultObjectNode(nodes, parent, name, nodeType, Min(FreeUuids))
           add == NamespaceAddNode(namespaceNodes, node.NodeId, n)
       IN IF checkState # "nil"
          THEN Apply(Cur) /\ Ran("AddNode", checkState, {"AddNode"}, <<>>)
          ELSE IF ~CanAddChild(nodes, parent, nodeType)
               THEN Apply(Cur) /\ Ran("AddNode", "ErrNodeTypeNotAccepted", {"AddNode"}, <<>>)
               ELSE IF ~add.ok
                    THEN /\ Apply([Cur EXCEPT
                                !.nodes = RemoveChild(AddChild(nodes, parent, n), parent, n)])
                         /\ Ran("AddNode", "BadNodeIdExists", {"AddNode"}, <<>>)
                    ELSE /\ Apply([Cur EXCEPT
                                !.nodes = [AddChild(nodes, parent, n) EXCEPT ![n] = node],
                                !.ns = add.idx,
                                !.nmap = MapPut(@, node.NodeId, n),
                                !.imap = MapPut(@, node.internalId, n),
                                !.entryNodes = IF node.entry THEN Append(@, n) ELSE @,
                                !.plugin = IF node.entry
                                           THEN <<[call |-> "Start", node |-> n]>> ELSE <<>>])
                         /\ Ran("AddNode", "nil", {"AddNode"}, <<>>)

\* ObjectNode.InsertChild(0, child) on a node of the tree, the child built by
\* NewDefaultObjectNode
InsertChild(parent, name, nodeType) ==
    /\ parent \in TreeNodes
    /\ FreePtrs # {} /\ FreeUuids # {}
    /\ UNCHANGED <<state, currentError>>
    /\ LET n == Min(FreePtrs)
           node == NewDefaultObjectNode(nodes, parent, name, nodeType, Min(FreeUuids))
       IN IF ~CanAddChild(nodes, parent, nodeType)
          THEN Apply(Cur) /\ Ran("InsertChild", "ErrNodeTypeNotAccepted", {}, <<>>)
          ELSE /\ Apply([Cur EXCEPT
                      !.nodes = [nodes EXCEPT ![n] = node,
                                              ![parent].childs = <<n>> \o @]])
               /\ Ran("InsertChild", "nil", {}, <<>>)

\* ProjectManager.RemoveNode(node), for a node of any type
RemoveNodeOfAnyType(node) ==
    /\ node \in Allocated
    /\ UNCHANGED <<state, currentError>>
    /\ LET par == nodes[node].parent
       IN IF checkState # "nil"
          THEN Apply(Cur) /\ Ran("RemoveNode", checkState, {"RemoveNode"}, <<>>)
          ELSE IF par = NoNode
               THEN Apply(Cur) /\ Ran("RemoveNode", "ErrParentNotFound", {"RemoveNode"}, <<>>)
               ELSE IF IndexOf(nodes[par].childs, node) = 0
                    THEN Apply(Cur) /\ Ran("RemoveNode", "ErrInvalidIndex", {"RemoveNode"}, <<>>)
                    ELSE LET S1 == [Cur EXCEPT !.nodes[par].childs =
                                        SeqRemoveAt(@, IndexOf(@, node))]
                             S2 == StopEntries(S1, ForEachSelfDepth(S1.nodes, node), node)
                             S3 == [S2 EXCEPT !.ns = NamespaceDeleteNode(@, S2.nodes, node)]
                         IN Apply(S3) /\ Ran("RemoveNode", "nil", {"RemoveNode"}, <<>>)

\* ProjectManager.RemoveNode(node), for the node types a caller removes
RemoveNode(node) ==
    /\ node \in Allocated /\ nodes[node].nodeType \in RemoveTypes
    /\ RemoveNodeOfAnyType(node)

\* ProjectManager.Save, GetProject and GetAllNodes: a nil root is dereferenced
\* when no project is loaded
Save ==
    /\ UNCHANGED <<state, currentError>>
    /\ IF checkState # "nil"
       THEN Apply(Cur) /\ Ran("Save", checkState, {"Save"}, <<>>)
       ELSE IF rootNode = NoNode
            THEN Apply(Cur) /\ Ran("Save", "panic", {"Save"}, <<>>)
            ELSE /\ Apply([Cur EXCEPT !.file =
                        [kind |-> "tree", tree |-> NewJsonObjectNode(nodes, rootNode)]])
                 /\ Ran("Save", "nil", {"Save"}, <<>>)

ReadOp(op, err) ==
    /\ UNCHANGED <<state, currentError>>
    /\ Apply(Cur)
    /\ Ran(op, IF checkState # "nil" THEN checkState ELSE err, {op}, <<>>)

GetProject == ReadOp("GetProject", IF rootNode = NoNode THEN "panic" ELSE "nil")
GetAllNodes == ReadOp("GetAllNodes", IF rootNode = NoNode THEN "panic" ELSE "nil")

\* ProjectManager.GetCurrentError: p.currentError, whatever the state
GetCurrentError ==
    /\ UNCHANGED <<state, currentError>>
    /\ Apply(Cur)
    /\ Ran("GetCurrentError", currentError, {"GetCurrentError"}, <<>>)

HasErrorResult_current == currentError

\* what ProjectManager.HasError returns
HasErrorResult ==
    CASE state = PROJECT_STATE_ERROR -> currentError
      [] state = PROJECT_STATE_UNLOADED -> "ErrProjectNotLoaded"
      [] OTHER -> "nil"

\* ProjectManager.HasError
HasError ==
    /\ UNCHANGED <<state, currentError>>
    /\ Apply(Cur)
    /\ Ran("HasError", HasErrorResult, {"HasError"}, <<>>)

\* the NodeIds a caller looks up: every id of an object, and one of no object
LookupIds == {nodes[n].NodeId : n \in Allocated} \cup {<<"Root", "none">>}

GetNodeByNodeId(nodeId) ==
    /\ nodeId \in LookupIds
    /\ ReadOp("GetNodeByNodeId",
              IF MapHas(nodeIdToNodeMapper, nodeId) THEN "nil" ELSE "ErrNotFound")

GetNodeByInternalId(internalId) ==
    /\ internalId \in 1..MaxUuid
    /\ ReadOp("GetNodeByInternalId",
              IF MapHas(internalIdToNodeMapper, internalId) THEN "nil" ELSE "ErrNotFound")

\* ObjectNode.SetBrowseName(value) on a node of the tree
SetBrowseName(n, value) ==
    /\ n \in TreeNodes /\ nodes[n].nodeType \in RenameTypes
    /\ UNCHANGED <<state, currentError>>
    /\ LET S == SetBrowseNameOn(Cur, n, value)
       IN Apply(S) /\ Ran("SetBrowseName", "nil", S.called, <<>>)

\* ObjectNode.Update(fm) with a BrowseName field: the value is checked by
\* CheckPropertyValue and applied by SetBrowseName only when it is accepted
Update(n, value) ==
    /\ n \in TreeNodes /\ nodes[n].nodeType \in RenameTypes
    /\ UNCHANGED <<state, currentError>>
    /\ LET fe == CheckBrowseName(nodes, value, nodes[n].nodeType, n, nodes[n].parent)
           S == IF fe = "nil" THEN SetBrowseNameOn(Cur, n, Trim(value)) ELSE Cur
       IN Apply(S) /\ Ran("Update", fe, S.called, <<>>)

\* the environment: the snapshot file is damaged or deleted
FileCorrupted ==
    /\ file.kind = "tree"
    /\ UNCHANGED <<state, currentError>>
    /\ Apply([Cur EXCEPT !.file = BadFile])
    /\ Ran("FileCorrupted", "nil", {}, <<>>)

FileDeleted ==
    /\ file.kind = "garbage"
    /\ UNCHANGED <<state, currentError>>
    /\ Apply([Cur EXCEPT !.file = NoFile])
    /\ Ran("FileDeleted", "nil", {}, <<>>)

PMInit ==
    /\ state = PROJECT_STATE_UNLOADED
    /\ currentError = "nil"
    /\ rootNode = NoNode
    /\ nodes = NoNodes
    /\ entryNodes = <<>>
    /\ nodeIdToNodeMapper = {}
    /\ internalIdToNodeMapper = {}
    /\ namespaceNodes = {}
    /\ file = NoFile
    /\ lastOp = "init"
    /\ lastErr = "nil"
    /\ called = {}
    /\ fired = <<>>
    /\ pluginCalls = <<>>

PMNext ==
    \/ Load
    \/ Unload
    \/ ReloadProject
    \/ ReloadPlugins
    \/ UnloadPlugins
    \/ LoadPlugins
    \/ \E parent \in Ptr, name \in NewNames, nodeType \in AddTypes :
           AddNode(parent, name, nodeType)
    \/ \E parent \in Ptr, name \in NewNames, nodeType \in AddTypes :
           InsertChild(parent, name, nodeType)
    \/ \E node \in Ptr : RemoveNode(node)
    \/ Save
    \/ GetProject
    \/ GetAllNodes
    \/ \E nodeId \in LookupIds : GetNodeByNodeId(nodeId)
    \/ \E internalId \in 1..MaxUuid : GetNodeByInternalId(internalId)
    \/ \E n \in Ptr, value \in RawNames : SetBrowseName(n, value)
    \/ \E n \in Ptr, value \in UpdateNames : Update(n, value)
    \/ FileCorrupted
    \/ FileDeleted
    \/ GetCurrentError
    \/ HasError


\* a project whose categories are removed with the channels below them, saved
\* and loaded again, and to which channels are added
EntNext ==
    \/ Load
    \/ ReloadProject
    \/ Save
    \/ \E parent \in Ptr, name \in NewNames : AddNode(parent, name, NodeTypeChannel)
    \/ \E node \in Ptr : RemoveNodeOfAnyType(node)

(***************************************************************************)
(* A rename as the separate steps it takes: ObjectNode.Update checks the    *)
(* name and SetBrowseName assigns it under the node's lock; UpdateNodeID    *)
(* then re-keys the node and each descendant, where SetNodeID assigns the   *)
(* NodeId field and then calls ReplaceNodeID, which takes the project lock  *)
(* for that one call. A concurrent lookup runs between any two steps.       *)
(***************************************************************************)
RnIdleRec == [pc |-> "idle", queue |-> <<>>, oldPrefix |-> <<>>, newPrefix |-> <<>>,
              oldId |-> <<>>, assigned |-> FALSE, replaced |-> FALSE, rekeyed |-> FALSE]

RnIdle == rn.pc = "idle"

\* the NodeId the first node of the queue is given
RnNewId == ReplaceNodeIDPrefix(rn.oldId, rn.oldPrefix, rn.newPrefix)

\* UpdateNodeID's loop: when the first node is re-keyed everywhere, go on with
\* the next descendant, or finish
RnAdvance(r) ==
    IF ~(r.assigned /\ r.replaced /\ r.rekeyed) THEN r
    ELSE IF Len(r.queue) = 1 THEN RnIdleRec
    ELSE [r EXCEPT !.queue = Tail(@), !.oldId = nodes[r.queue[2]].NodeId,
                   !.assigned = FALSE, !.replaced = FALSE, !.rekeyed = FALSE]

rnFrame == <<state, currentError, rootNode, entryNodes, internalIdToNodeMapper, file,
             lastErr, called, fired, pluginCalls>>

\* ObjectNode.Update with an accepted BrowseName, up to the call of UpdateNodeID
UpdateBegin(n, value) ==
    /\ RnIdle
    /\ n \in TreeNodes /\ nodes[n].nodeType \in RenameTypes
    /\ CheckBrowseName(nodes, value, nodes[n].nodeType, n, nodes[n].parent) = "nil"
    /\ nodes[n].BrowseName # Trim(value)
    /\ nodes' = [nodes EXCEPT ![n].BrowseName = Trim(value)]
    /\ rn' = [RnIdleRec EXCEPT !.pc = "run",
                               !.queue = ForEachSelfDepth(nodes, n),
                               !.oldPrefix = nodes[n].NodeId,
                               !.newPrefix = nodes[nodes[n].parent].NodeId \o <<Trim(value)>>,
                               !.oldId = nodes[n].NodeId]
    /\ lastOp' = "UpdateBegin"
    /\ UNCHANGED <<rnFrame, nodeIdToNodeMapper, namespaceNodes, rnSeen>>
    /\ UNCHANGED notRn

\* SetNodeID, first half: n.NodeId = id
SetNodeIDAssign ==
    /\ rn.pc = "run" /\ ~rn.assigned
    /\ nodes' = [nodes EXCEPT ![Head(rn.queue)].NodeId = RnNewId]
    /\ rn' = RnAdvance([rn EXCEPT !.assigned = TRUE])
    /\ lastOp' = "SetNodeIDAssign"
    /\ UNCHANGED <<rnFrame, nodeIdToNodeMapper, namespaceNodes, rnSeen>>
    /\ UNCHANGED notRn

\* SetNodeID, second half: ReplaceNodeID(oldID, id) under the project lock
SetNodeIDReplace ==
    /\ rn.pc = "run" /\ rn.assigned /\ ~rn.replaced
    /\ nodeIdToNodeMapper' = ReplaceNodeID(nodeIdToNodeMapper, rn.oldId, RnNewId)
    /\ rn' = RnAdvance([rn EXCEPT !.replaced = TRUE])
    /\ lastOp' = "SetNodeIDReplace"
    /\ UNCHANGED <<rnFrame, nodes, namespaceNodes, rnSeen>>
    /\ UNCHANGED notRn

\* UpdateNodeID re-keys the node in the namespace index, before or after it
\* calls SetNodeID
NamespaceRekey ==
    /\ rn.pc = "run" /\ ~rn.rekeyed /\ (rn.assigned => rn.replaced)
    /\ namespaceNodes' = MapPut(MapDel(namespaceNodes, rn.oldId), RnNewId, Head(rn.queue))
    /\ rn' = RnAdvance([rn EXCEPT !.rekeyed = TRUE])
    /\ lastOp' = "NamespaceRekey"
    /\ UNCHANGED <<rnFrame, nodes, nodeIdToNodeMapper, rnSeen>>
    /\ UNCHANGED notRn

\* the NodeIds under which an index holds node n
IdsOf(idx, n) == {e[1] : e \in {x \in idx : x[2] = n}}

\* a concurrent operation looks node n up: GetNodeByNodeId under the project
\* lock, and the namespace index
Lookup(n) ==
    /\ n \in TreeNodes
    /\ rnSeen' = [node |-> n, pm |-> IdsOf(nodeIdToNodeMapper, n),
                  ns |-> IdsOf(namespaceNodes, n)]
    /\ lastOp' = "Lookup"
    /\ UNCHANGED <<rnFrame, nodes, nodeIdToNodeMapper, namespaceNodes, rn>>
    /\ UNCHANGED notRn

RnInit ==
    /\ rn = RnIdleRec
    /\ rnSeen = [node |-> NoNode, pm |-> {}, ns |-> {}]

\* Load and AddNode between renames, the steps of a rename, and lookups
RnNext ==
    \/ RnIdle /\ Load
    \/ \E parent \in Ptr, name \in NewNames, nodeType \in AddTypes :
           RnIdle /\ AddNode(parent, name, nodeType)
    \/ \E n \in Ptr, value \in UpdateNames : UpdateBegin(n, value)
    \/ SetNodeIDAssign
    \/ SetNodeIDReplace
    \/ NamespaceRekey
    \/ \E n \in Ptr : Lookup(n)

(***************************************************************************)
(* RemoveNode as the steps it takes: the checks, RemoveChild and the walk   *)
(* that launches "go node.GetPlugin().Stop(node)" for each entry; then      *)
(* namespaceManager.DeleteNode. A launched goroutine runs at any later time.*)
(***************************************************************************)
RmIdle == rm.pc = "idle"

\* RemoveNode up to the call of DeleteNode
RemoveNodeBegin(node) ==
    /\ RmIdle
    /\ node \in Allocated /\ nodes[node].nodeType \in RemoveTypes
    /\ UNCHANGED <<state, currentError>>
    /\ lastOp' = "RemoveNodeBegin" /\ called' = {"RemoveNode"} /\ fired' = <<>>
    /\ UNCHANGED notRm
    /\ LET par == nodes[node].parent
       IN IF checkState # "nil"
          THEN Apply(Cur) /\ lastErr' = checkState /\ UNCHANGED rm
          ELSE IF par = NoNode
               THEN Apply(Cur) /\ lastErr' = "ErrParentNotFound" /\ UNCHANGED rm
               ELSE IF IndexOf(nodes[par].childs, node) = 0
                    THEN Apply(Cur) /\ lastErr' = "ErrInvalidIndex" /\ UNCHANGED rm
                    ELSE LET S1 == [Cur EXCEPT !.nodes[par].childs =
                                        SeqRemoveAt(@, IndexOf(@, node))]
                             S2 == StopEntries(S1, ForEachSelfDepth(S1.nodes, node), node)
                         IN /\ Apply(S2)
                            /\ lastErr' = "nil"
                            /\ rm' = [pc |-> "delete", node |-> node,
                                      pending |-> rm.pending \cup SeqToSet(S2.plugin)]

\* a launched goroutine runs: the plugin stops the entry
GoStop(c) ==
    /\ c \in rm.pending
    /\ rm' = [rm EXCEPT !.pending = @ \ {c}]
    /\ lastOp' = "GoStop"
    /\ UNCHANGED <<state, currentError, rootNode, nodes, entryNodes, nodeIdToNodeMapper,
                   internalIdToNodeMapper, namespaceNodes, file, lastErr, called, fired,
                   pluginCalls>>
    /\ UNCHANGED notRm

\* RemoveNode's last step: namespaceManager.DeleteNode(node, true)
RemoveNodeDelete ==
    /\ rm.pc = "delete"
    /\ namespaceNodes' = NamespaceDeleteNode(namespaceNodes, nodes, rm.node)
    /\ rm' = [rm EXCEPT !.pc = "idle"]
    /\ lastOp' = "RemoveNodeDelete"
    /\ UNCHANGED <<state, currentError, rootNode, nodes, entryNodes, nodeIdToNodeMapper,
                   internalIdToNodeMapper, file, lastErr, called, fired, pluginCalls>>
    /\ UNCHANGED notRm

RmInit == rm = [pc |-> "idle", node |-> NoNode, pending |-> {}]

\* project operations between removals, the steps of RemoveNode, and the
\* goroutines it launched
RmNext ==
    \/ RmIdle /\ Load
    \/ RmIdle /\ ReloadProject
    \/ RmIdle /\ Save
    \/ \E parent \in Ptr, name \in NewNames, nodeType \in AddTypes :
           RmIdle /\ AddNode(parent, name, nodeType)
    \/ \E node \in Ptr : RemoveNodeBegin(node)
    \/ \E c \in rm.pending : GoStop(c)
    \/ RemoveNodeDelete

(***************************************************************************)
(* Service handlers (unnamed/part_004): the session gate, the request       *)
(* validation and the worker fan-out of one request                         *)
(***************************************************************************)
\* sessions the session manager can hold, secure channels, and the declared
\* operation limit (MaxNodesPerRead, MaxNodesPerBrowse, ...)
MaxSessions == 1
MaxChannels == 2
MaxOps == 2

Tokens == 1..MaxSessions
Channels == 1..MaxChannels

DiscoveryServices == {"FindServers", "GetEndpoints"}
FanOutServices == {"Browse", "BrowseNext", "TranslateBrowsePathsToNodeIds", "Read",
                   "Write", "Call"}
SessionServices ==
    FanOutServices \cup
    {"CloseSession", "Cancel", "RegisterNodes", "UnregisterNodes", "HistoryRead",
     "CreateMonitoredItems", "ModifyMonitoredItems", "SetMonitoringMode",
     "SetTriggering", "DeleteMonitoredItems", "CreateSubscription",
     "ModifySubscription", "SetPublishingMode", "DeleteSubscriptions", "Publish",
     "Republish"}
Services == DiscoveryServices \cup {"CreateSession", "ActivateSession"} \cup SessionServices

\* the request-level checks a handler makes before the item count is looked at,
\* in the handler's order
PreChecks(service) ==
    CASE service = "CreateSession" ->
           <<"BadCertificateHostNameInvalid", "BadCertificateURIInvalid", "BadNonceInvalid">>
      [] service = "ActivateSession" ->
           <<"BadApplicationSignatureInvalid", "BadIdentityTokenInvalid">>
      [] service = "Browse" -> <<"BadViewIDUnknown">>
      [] service = "Read" -> <<"BadMaxAgeInvalid", "BadTimestampsToReturnInvalid">>
      [] service = "HistoryRead" -> <<"BadInvalidTimestampArgument">>
      [] service \in {"CreateMonitoredItems", "ModifyMonitoredItems"} ->
           <<"BadSubscriptionIDInvalid", "BadTimestampsToReturnInvalid">>
      [] service \in {"SetMonitoringMode", "SetTriggering", "DeleteMonitoredItems",
                      "ModifySubscription", "Republish"} -> <<"BadSubscriptionIDInvalid">>
      [] service = "CreateSubscription" -> <<"BadTooManySubscriptions">>
      [] OTHER -> <<>>

\* the handlers that answer an empty item list with BadNothingToDo, and those
\* that check the item count against the operation limit
ChecksNothingToDo ==
    FanOutServices \cup {"RegisterNodes", "UnregisterNodes", "HistoryRead",
                         "CreateMonitoredItems", "ModifyMonitoredItems", "SetMonitoringMode",
                         "SetTriggering", "DeleteMonitoredItems", "DeleteSubscriptions"}
ChecksTooMany == ChecksNothingToDo \ {"SetTriggering", "DeleteSubscriptions"}

SessionGate_channelFirst(disc, found, id, channelID) ==
    IF disc THEN "BadSecurityPolicyRejected"
    ELSE IF ~found THEN "BadSessionIDInvalid"
    ELSE IF id # channelID THEN "BadSecureChannelIDInvalid"
    ELSE IF id = 0 THEN "BadSessionNotActivated"
    ELSE "Good"

\* the first four checks of a session-bound handler
SessionGate(disc, found, id, channelID) ==
    IF disc THEN "BadSecurityPolicyRejected"
    ELSE IF ~found THEN "BadSessionIDInvalid"
    ELSE IF id = 0 THEN "BadSessionNotActivated"
    ELSE IF id # channelID THEN "BadSecureChannelIDInvalid"
    ELSE "Good"

RECURSIVE FirstFailing(_, _)
FirstFailing(checks, fails) ==
    IF checks = <<>> THEN "Good"
    ELSE IF Head(checks) \in fails THEN Head(checks)
    ELSE FirstFailing(Tail(checks), fails)

\* the request-specific validation of a handler: its own checks, then the
\* item count l
RequestValidation(service, l, fails) ==
    IF FirstFailing(PreChecks(service), fails) # "Good"
    THEN FirstFailing(PreChecks(service), fails)
    ELSE IF service \in ChecksNothingToDo /\ l = 0 THEN "BadNothingToDo"
    ELSE IF service \in ChecksTooMany /\ l > MaxOps THEN "BadTooManyOperations"
    ELSE "Good"

Abort(code) == <<[kind |-> "abort", code |-> code, results |-> {}]>>
ServiceFault(code) == <<[kind |-> "fault", code |-> code, results |-> {}]>>
Response(res) == [kind |-> "response", code |-> "Good", results |-> res]

NoFanOut == /\ wg' = 0 /\ submitted' = {} /\ results' = {} /\ waiter' = FALSE

WaitReturns_early(counter) == TRUE

\* wg.Wait() returns
WaitReturns(counter) == counter = 0

Idle == ~waiter

\* findServers, getEndpoints
HandleDiscovery(r) ==
    /\ r.service \in DiscoveryServices
    /\ svcOut' = <<Response({})>>
    /\ NoFanOut
    /\ UNCHANGED <<sessionTokens, secureChannelId>>

\* handleCreateSession
HandleCreateSession(r) ==
    /\ r.service = "CreateSession"
    /\ NoFanOut
    /\ IF r.disc
       THEN svcOut' = Abort("BadSecurityPolicyRejected")
            /\ UNCHANGED <<sessionTokens, secureChannelId>>
       ELSE IF RequestValidation(r.service, r.l, r.fails) # "Good"
            THEN svcOut' = ServiceFault(RequestValidation(r.service, r.l, r.fails))
                 /\ UNCHANGED <<sessionTokens, secureChannelId>>
            ELSE IF Tokens \ sessionTokens = {}
                 THEN svcOut' = ServiceFault("BadTooManySessions")
                      /\ UNCHANGED <<sessionTokens, secureChannelId>>
                 ELSE /\ sessionTokens' = sessionTokens \cup {Min(Tokens \ sessionTokens)}
                      /\ secureChannelId' =
                            [secureChannelId EXCEPT ![Min(Tokens \ sessionTokens)] = 0]
                      /\ svcOut' = <<Response({})>>

BindChannel_keeps(ids, token, ch) == ids

\* session.SetSecureChannelId(ch.ChannelID())
BindChannel(ids, token, ch) == [ids EXCEPT ![token] = ch]

\* handleActivateSession
HandleActivateSession(r) ==
    /\ r.service = "ActivateSession"
    /\ NoFanOut
    /\ UNCHANGED sessionTokens
    /\ IF r.disc
       THEN svcOut' = Abort("BadSecurityPolicyRejected") /\ UNCHANGED secureChannelId
       ELSE IF r.token \notin sessionTokens
            THEN svcOut' = ServiceFault("BadSessionIDInvalid") /\ UNCHANGED secureChannelId
            ELSE IF RequestValidation(r.service, r.l, r.fails) # "Good"
                 THEN svcOut' = ServiceFault(RequestValidation(r.service, r.l, r.fails))
                      /\ UNCHANGED secureChannelId
                 ELSE /\ secureChannelId' = BindChannel(secureChannelId, r.token, r.ch)
                      /\ svcOut' = <<Response({})>>

\* a session-bound handler: gate, validation, then either the answer or the
\* fan-out of one task per item and the completion goroutine
HandleSession(r) ==
    /\ r.service \in SessionServices
    /\ UNCHANGED secureChannelId
    /\ LET gate == SessionGate(r.disc, r.token \in sessionTokens,
                               secureChannelId[r.token], r.ch)
           valid == RequestValidation(r.service, r.l, r.fails)
       IN IF gate = "BadSecurityPolicyRejected"
          THEN svcOut' = Abort(gate) /\ NoFanOut /\ UNCHANGED sessionTokens
          ELSE IF gate # "Good"
               THEN /\ svcOut' = ServiceFault(gate)
                    /\ NoFanOut
                    /\ sessionTokens' = IF gate = "BadSessionNotActivated"
                                        THEN sessionTokens \ {r.token} ELSE sessionTokens
               ELSE IF valid # "Good"
                    THEN svcOut' = ServiceFault(valid) /\ NoFanOut /\ UNCHANGED sessionTokens
                    ELSE IF r.service \in FanOutServices
                         THEN /\ wg' = r.l
                              /\ submitted' = 1..r.l
                              /\ results' = {}
                              /\ waiter' = TRUE
                              /\ svcOut' = <<>>
                              /\ UNCHANGED sessionTokens
                         ELSE /\ svcOut' = <<Response(1..r.l)>>
                              /\ NoFanOut
                              /\ sessionTokens' = IF r.service = "CloseSession"
                                                  THEN sessionTokens \ {r.token}
                                                  ELSE sessionTokens

\* the handler of a request: what it answers and what it does to the sessions
HandleRequest(service, ch, disc, token, l, fails) ==
    /\ Idle
    /\ service \notin (ChecksNothingToDo \cup {"SetPublishingMode"}) => l = 1
    /\ svcReq' = [service |-> service, ch |-> ch, disc |-> disc,
                  token |-> token, l |-> l, fails |-> fails]
    /\ \/ HandleDiscovery(svcReq')
       \/ HandleCreateSession(svcReq')
       \/ HandleActivateSession(svcReq')
       \/ HandleSession(svcReq')

\* a request arrives on a channel and its handler runs; the answers are
\* followed here, the sessions' diagnostics counters in HandleCounting
Handle(service, ch, disc, token, l, fails) ==
    /\ HandleRequest(service, ch, disc, token, l, fails)
    /\ UNCHANGED notSvc

\* a pool worker runs the task of item i: results[i] = ..., wg.Done()
Worker(i) ==
    /\ i \in submitted
    /\ submitted' = submitted \ {i}
    /\ results' = results \cup {i}
    /\ wg' = wg - 1
    /\ UNCHANGED <<sessionTokens, secureChannelId, svcReq, svcOut, waiter>>
    /\ UNCHANGED notSvc

\* the completion goroutine: wg.Wait(), then the single ch.Write of the response
Completion ==
    /\ waiter
    /\ WaitReturns(wg)
    /\ svcOut' = Append(svcOut, Response(results))
    /\ waiter' = FALSE
    /\ UNCHANGED <<sessionTokens, secureChannelId, svcReq, wg, submitted, results>>
    /\ UNCHANGED notSvc

SvcInit ==
    /\ sessionTokens = {}
    /\ secureChannelId = [t \in Tokens |-> 0]
    /\ svcReq = [service |-> "none", ch |-> 1, disc |-> FALSE, token |-> 1,
                 l |-> 0, fails |-> {}]
    /\ svcOut = <<>>
    /\ wg = 0
    /\ submitted = {}
    /\ results = {}
    /\ waiter = FALSE

SvcNext ==
    \/ \E service \in Services, ch \in Channels, disc \in BOOLEAN, token \in Tokens,
          l \in 0..(MaxOps + 1) :
           \E fails \in SUBSET SeqToSet(PreChecks(service)) :
               Handle(service, ch, disc, token, l, fails)
    \/ \E i \in 1..(MaxOps + 1) : Worker(i)
    \/ Completion

(***************************************************************************)
(* The sessions' diagnostics counters (unnamed/part_004): what each        *)
(* handler adds to them on each of its branches                            *)
(***************************************************************************)
\* the largest value a session's requestCount is followed to
MaxCount == 2

\* the handlers that have "session.<service>Count++; session.requestCount++"
\* after the session lookup: handleCloseSession and handleCancel have no
\* counter statement, handleHistoryRead has them commented out
CountsRequests == SessionServices \ {"CloseSession", "Cancel", "HistoryRead"}

\* the fault branches that have "session.<service>ErrorCount++;
\* session.errorCount++": all those of a counting handler after the session
\* lookup but the BadSecureChannelIDInvalid branch of handleDeleteSubscriptions
CountsFault(service, code) ==
    /\ service \in CountsRequests
    /\ ~(service = "DeleteSubscriptions" /\ code = "BadSecureChannelIDInvalid")

\* the request reached the handler's "session, ok := ...Get(token)" with ok
Resolves(r) ==
    /\ r.service \in SessionServices
    /\ ~r.disc
    /\ r.token \in sessionTokens

AnswersFault(out) == out # <<>> /\ out[1].kind = "fault"

\* NewSession: the counters of a new session start at zero
NewSessionCounters(t) ==
    /\ requestCount' = [requestCount EXCEPT ![t] = 0]
    /\ errorCount' = [errorCount EXCEPT ![t] = 0]
    /\ serviceCount' = [serviceCount EXCEPT ![t] = [s \in SessionServices |-> 0]]
    /\ serviceErrorCount' =
          [serviceErrorCount EXCEPT ![t] = [s \in SessionServices |-> 0]]

\* the counter statements of the handler of request r, given its answer
Count(r, out) ==
    IF Resolves(r) /\ r.service \in CountsRequests
    THEN /\ requestCount' = [requestCount EXCEPT ![r.token] = @ + 1]
         /\ serviceCount' = [serviceCount EXCEPT ![r.token][r.service] = @ + 1]
         /\ IF AnswersFault(out) /\ CountsFault(r.service, out[1].code)
            THEN /\ errorCount' = [errorCount EXCEPT ![r.token] = @ + 1]
                 /\ serviceErrorCount' =
                       [serviceErrorCount EXCEPT ![r.token][r.service] = @ + 1]
            ELSE UNCHANGED <<errorCount, serviceErrorCount>>
    ELSE IF r.service = "CreateSession" /\ sessionTokens' # sessionTokens
         THEN NewSessionCounters(Min(Tokens \ sessionTokens))
         ELSE UNCHANGED cntVars

\* a request arrives on a channel and its handler runs, counters included
HandleCounting(service, ch, disc, token, l, fails) ==
    /\ service \in CountsRequests => requestCount[token] < MaxCount
    /\ HandleRequest(service, ch, disc, token, l, fails)
    /\ Count(svcReq', svcOut')
    /\ UNCHANGED notCnt

CntInit ==
    /\ requestCount = [t \in Tokens |-> 0]
    /\ errorCount = [t \in Tokens |-> 0]
    /\ serviceCount = [t \in Tokens |-> [s \in SessionServices |-> 0]]
    /\ serviceErrorCount = [t \in Tokens |-> [s \in SessionServices |-> 0]]

\* the services whose requests are followed here: one discovery service,
\* the session's life, the handlers without counter statements, and counting
\* handlers with and without fan-out
CntServices ==
    {"FindServers", "CreateSession", "ActivateSession", "CloseSession", "Cancel",
     "HistoryRead", "DeleteSubscriptions", "Read", "Browse", "Publish"}

CntNext ==
    \/ \E service \in CntServices, ch \in Channels, disc \in BOOLEAN, token \in Tokens,
          l \in 0..1 :
           \E fails \in {{}, SeqToSet(PreChecks(service))} :
               HandleCounting(service, ch, disc, token, l, fails)
    \/ \E i \in 1..(MaxOps + 1) : Worker(i)
    \/ Completion

(***************************************************************************)
(* ActivateSession and the session's binding to its secure channel          *)
(* (unnamed/part_004 handleCreateSession, handleActivateSession and the    *)
(* gate of the session-bound handlers)                                     *)
(***************************************************************************)
\* the nonces getNextNonce gives while the sessions are followed
MaxNonces == 4

\* the identities an ActivateSession request can carry
Identities == {"anonymous", "user"}
NoIdentity == "none"

\* srv.rolesProvider.GetRoles(userIdentity, ...)
GetRoles(identity) ==
    IF identity = "anonymous" THEN {"Anonymous"} ELSE {"AuthenticatedUser"}

\* the services followed here: the session is created, activated, used and
\* closed
BindingServices == {"CreateSession", "ActivateSession", "Publish", "CloseSession"}

\* what the handlers of CreateSession and ActivateSession store in the
\* session besides the channel id: NewSession starts with a nonce and no
\* identity, a successful ActivateSession sets identity, roles and a new
\* nonce
Record(r, out, identity) ==
    IF r.service = "ActivateSession" /\ out = <<Response({})>>
    THEN /\ userIdentity' = [userIdentity EXCEPT ![r.token] = identity]
         /\ userRoles' = [userRoles EXCEPT ![r.token] = GetRoles(identity)]
         /\ sessionNonce' = [sessionNonce EXCEPT ![r.token] = nonces + 1]
         /\ nonces' = nonces + 1
    ELSE IF r.service = "CreateSession" /\ out = <<Response({})>>
         THEN LET t == Min(Tokens \ sessionTokens)
              IN /\ userIdentity' = [userIdentity EXCEPT ![t] = NoIdentity]
                 /\ userRoles' = [userRoles EXCEPT ![t] = {}]
                 /\ sessionNonce' = [sessionNonce EXCEPT ![t] = nonces + 1]
                 /\ nonces' = nonces + 1
         ELSE UNCHANGED actVars

\* a request arrives on a channel and its handler runs, with what it stores
\* in the session
HandleBinding(service, ch, disc, token, identity, fails) ==
    /\ nonces < MaxNonces
    /\ HandleRequest(service, ch, disc, token, 1, fails)
    /\ Record(svcReq', svcOut', identity)
    /\ UNCHANGED notAct

ActInit ==
    /\ userIdentity = [t \in Tokens |-> NoIdentity]
    /\ userRoles = [t \in Tokens |-> {}]
    /\ sessionNonce = [t \in Tokens |-> 0]
    /\ nonces = 0

ActNext ==
    \E service \in BindingServices, ch \in Channels, disc \in BOOLEAN, token \in Tokens,
       identity \in Identities :
        \E fails \in {{}, SeqToSet(PreChecks(service))} :
            HandleBinding(service, ch, disc, token, identity, fails)

(***************************************************************************)
(* ObjectNode.Update(fm) (server/object_node.go, FieldMap in               *)
(* unnamed/part_004)                                                       *)
(***************************************************************************)
PropertyNameBrowseName == "BrowseName"
PropertyNameDisplayName == "DisplayName"
PropertyNameDescription == "Description"

\* the keys a caller's field map can have, the properties of the node's
\* plugin, and the marks of a key that is not in the map and of a value
\* that convert.Convert rejects
RawFields == {"browseName", "BrowseName", "displayName", "description", "p", "q"}
PluginFields == {"P", "Q"}
CamelFields ==
    {PropertyNameBrowseName, PropertyNameDisplayName, PropertyNameDescription}
        \cup PluginFields
Absent == "<absent>"
Unconvertible == "<unconvertible>"

\* the field maps given to Update
FieldMaps ==
    {[browseName |-> a, BrowseName |-> b, displayName |-> c, description |-> d,
      p |-> e, q |-> f] :
        a \in {Absent, " b", "a.b", Unconvertible}, b \in {Absent, "Alarms", "b"},
        c \in {Absent, "d"}, d \in {Absent, "e"},
        e \in {Absent, "1"}, f \in {Absent, "bad"}}

\* strcase.ToCamel on the keys of the model
ToCamel(k) ==
    CASE k = "browseName" -> "BrowseName"
      [] k = "displayName" -> "DisplayName"
      [] k = "description" -> "Description"
      [] k = "p" -> "P"
      [] k = "q" -> "Q"
      [] OTHER -> k

\* FieldMap.NormalizeFieldName: every key is replaced by its camel form; the
\* value under a key that was renamed overwrites the one the camel key had
NormalizeFieldName(fm) ==
    [c \in CamelFields |->
        LET raw == {k \in RawFields : ToCamel(k) = c /\ fm[k] # Absent}
        IN IF raw = {} THEN Absent
           ELSE IF \E k \in raw : k # c
                THEN fm[CHOOSE k \in raw : k # c]
                ELSE fm[c]]

\* FieldMap.GetString
GetString(m, field) ==
    IF m[field] = Absent THEN [err |-> "ErrNotFound", value |-> ""]
    ELSE IF m[field] = Unconvertible THEN [err |-> "InvalidValue", value |-> ""]
    ELSE [err |-> "nil", value |-> m[field]]

\* the node that is updated (2), with its parent (1) and a sibling (3)
UpdSiblings(node) ==
    [q \in Ptr |->
        CASE q = 1 -> [NoObj EXCEPT !.BrowseName = "Root", !.NodeId = <<"Root">>,
                                            !.childs = <<2, 3>>,
                                            !.nodeType = NodeTypeRoot]
          [] q = 2 -> [NoObj EXCEPT !.BrowseName = node.BrowseName,
                                            !.NodeId = node.NodeId,
                                            !.parent = 1,
                                            !.nodeType = NodeTypeCategoryConnectivity]
          [] q = 3 -> [NoObj EXCEPT !.BrowseName = "Alarms",
                                    !.NodeId = <<"Root", "Alarms">>,
                                    !.parent = 1,
                                    !.nodeType = NodeTypeCategoryAlarms]
          [] OTHER -> NoObj]

\* ObjectNode.CheckPropertyValue for BrowseName, DisplayName and Description:
\* the error and the valid value
CheckPropertyValue(node, name, value) ==
    IF name = PropertyNameBrowseName
    THEN [err |-> CheckBrowseName(UpdSiblings(node), value,
                                  NodeTypeCategoryConnectivity, 2, 1),
          value |-> Trim(value)]
    ELSE [err |-> "nil", value |-> value]

\* the errors and the valid fields Update collects for the three names
NameErrors(node, m) ==
    {<<name, CheckPropertyValue(node, name, GetString(m, name).value).err>> :
        name \in {n \in {PropertyNameBrowseName, PropertyNameDisplayName,
                         PropertyNameDescription} :
                    /\ GetString(m, n).err = "nil"
                    /\ CheckPropertyValue(node, n, GetString(m, n).value).err # "nil"}}
NameFields(node, m) ==
    {<<name, CheckPropertyValue(node, name, GetString(m, name).value).value>> :
        name \in {n \in {PropertyNameBrowseName, PropertyNameDisplayName,
                         PropertyNameDescription} :
                    /\ GetString(m, n).err = "nil"
                    /\ CheckPropertyValue(node, n, GetString(m, n).value).err = "nil"}}

\* FieldMap.RemoveNonPluginFields, then Plugin.CheckUpdateValid (the plugin
\* is an external collaborator: it rejects the value "bad")
CheckUpdateValid(m) ==
    [fes |-> {<<k, "ErrInvalidValue">> : k \in {f \in PluginFields : m[f] = "bad"}},
     vf |-> {<<k, m[k]>> : k \in {f \in PluginFields : m[f] \notin {Absent, "bad"}}}]

Applies_always(fieldErrors) == TRUE

\* if len(fieldErrors) == 0, before the loop that sets the fields
Applies(fieldErrors) == fieldErrors = {}

\* ObjectNode.SetBrowseName on a node without children: the name, and the
\* NodeId that is the parent's path and the name
SetBrowseNameField(node, value) ==
    IF node.BrowseName # value
    THEN [node EXCEPT !.BrowseName = value, !.NodeId = <<"Root", value>>]
    ELSE node

\* the loop over validFields
\* ua.NewDataValue(v, ua.Good, time.Now(), 0, time.Now(), 0)
NewDataValue(value, now) == [Value |-> value, SourceTimestamp |-> now]

\* VariableNode.SetValue on the plugin property k of the node: the value is
\* stored when reflect.DeepEqual finds it different from the stored DataValue,
\* and the parent's UpdateProps is called unless the parent is being updated
SetValue(node, k, value) ==
    LET hasChanged == node.properties[k] # value
    IN [node |-> [node EXCEPT !.properties[k] = value],
        hasChanged |-> hasChanged,
        UpdateProps |-> IF hasChanged /\ ~node.isUpdating THEN 1 ELSE 0]

RECURSIVE SetValues(_, _, _)
\* the default case of the loop over validFields: SetValue on each plugin
\* property, hasChanged being true once one of them reports a change
SetValues(node, validFields, now) ==
    IF ~ \E e \in validFields : e[1] \in PluginFields
    THEN [node |-> node, hasChanged |-> FALSE, UpdateProps |-> 0]
    ELSE LET e == CHOOSE e \in validFields : e[1] \in PluginFields
             r == SetValue(node, e[1], NewDataValue(e[2], now))
             rest == SetValues(r.node, validFields \ {e}, now)
         IN [node |-> rest.node,
             hasChanged |-> r.hasChanged \/ rest.hasChanged,
             UpdateProps |-> r.UpdateProps + rest.UpdateProps]

\* ObjectNode.BeginUpdate and EndUpdate
BeginUpdate(node) == [node EXCEPT !.isUpdating = TRUE]
EndUpdate(node) == [node EXCEPT !.isUpdating = FALSE]

\* the readings of time.Now(): the clock does not run backwards
MaxTime == 1
Times(node) ==
    {now \in 0..MaxTime :
        \A k \in PluginFields : node.properties[k].SourceTimestamp <= now}

SetFields(node, validFields, now) ==
    LET has(k) == \E e \in validFields : e[1] = k
        get(k) == (CHOOSE e \in validFields : e[1] = k)[2]
        n1 == IF has(PropertyNameBrowseName)
              THEN SetBrowseNameField(node, get(PropertyNameBrowseName)) ELSE node
        n2 == IF has(PropertyNameDisplayName)
              THEN [n1 EXCEPT !.DisplayName = get(PropertyNameDisplayName)] ELSE n1
        n3 == IF has(PropertyNameDescription)
              THEN [n2 EXCEPT !.Description = get(PropertyNameDescription)] ELSE n2
    IN SetValues(n3, validFields, now)

\* ObjectNode.Update(fm), time.Now() reading now
UpdateFields(fm, now) ==
    /\ LET m == NormalizeFieldName(fm)
           names == NameErrors(updNode, m)
           plugin == IF names = {} THEN CheckUpdateValid(m) ELSE [fes |-> {}, vf |-> {}]
           fieldErrors == names \cup plugin.fes
           validFields == NameFields(updNode, m) \cup plugin.vf
           r == IF Applies(fieldErrors)
                THEN SetFields(BeginUpdate(updNode), validFields, now)
                ELSE [node |-> BeginUpdate(updNode), hasChanged |-> FALSE,
                      UpdateProps |-> 0]
       IN /\ updNode' = EndUpdate(r.node)
          /\ updOut' = [validFields |-> validFields, fieldErrors |-> fieldErrors,
                        UpdateProps |-> r.UpdateProps + IF r.hasChanged THEN 1 ELSE 0]
    /\ UNCHANGED notUpd

UpdInit ==
    /\ updNode = [BrowseName |-> "a", DisplayName |-> "a", Description |-> "",
                  NodeId |-> <<"Root", "a">>,
                  isUpdating |-> FALSE,
                  properties |-> [k \in PluginFields |-> NewDataValue("0", 0)]]
    /\ updOut = [validFields |-> {}, fieldErrors |-> {},
                 UpdateProps |-> 0]

UpdNext == \E fm \in FieldMaps, now \in Times(updNode) : UpdateFields(fm, now)

(***************************************************************************)
(* The items of one request (unnamed/part_004): handleRead, handleWrite,   *)
(* handleBrowse and handleCall run one pool task per item, each task fills *)
(* the item's slot of the result vector, and the completion goroutine      *)
(* writes the response                                                     *)
(***************************************************************************)
\* the largest number of items of a request
MaxItems == 2

ItemServices == {"Read", "Write", "Browse", "Call"}

\* the tests the task of an item makes, in the task's order, each with the
\* status the task stores when the test fails
ItemChecks(service) ==
    CASE service = "Read" ->
           <<<<"DataEncoding", "BadDataEncodingInvalid">>,
             <<"IndexRangeOfValue", "BadIndexRangeNoData">>,
             <<"FindNode", "BadNodeIDUnknown">>,
             <<"IsUserPermitted", "BadNodeIDUnknown">>,
             <<"VariableNode", "BadAttributeIDInvalid">>,
             <<"AccessLevel", "BadNotReadable">>,
             <<"UserAccessLevel", "BadUserAccessDenied">>>>
      [] service = "Write" ->
           <<<<"FindNode", "BadNodeIDUnknown">>,
             <<"IsUserPermitted", "BadNodeIDUnknown">>,
             <<"VariableNode", "BadAttributeIDInvalid">>,
             <<"AccessLevel", "BadNotWritable">>,
             <<"UserAccessLevel", "BadUserAccessDenied">>,
             <<"DataType", "BadTypeMismatch">>>>
      [] service = "Browse" ->
           <<<<"BrowseDirection", "BadBrowseDirectionInvalid">>,
             <<"FindNode", "BadNodeIDUnknown">>,
             <<"IsUserPermitted", "BadNodeIDUnknown">>,
             <<"ReferenceType", "BadReferenceTypeIDInvalid">>,
             <<"FindTarget", "BadNodeIDUnknown">>,
             <<"addBrowseContinuationPoint", "BadNoContinuationPoints">>>>
      [] service = "Call" ->
           <<<<"FindNode", "BadNodeIDUnknown">>,
             <<"IsUserPermitted", "BadNodeIDUnknown">>,
             <<"ObjectNode", "BadNodeClassInvalid">>,
             <<"FindMethod", "BadNodeIDUnknown">>,
             <<"IsMethodPermitted", "BadNodeIDUnknown">>,
             <<"MethodNode", "BadAttributeIDInvalid">>,
             <<"UserExecutable", "BadUserAccessDenied">>,
             <<"callMethodHandler", "BadNotImplemented">>>>

ItemTests(service) == {ItemChecks(service)[k][1] : k \in DOMAIN ItemChecks(service)}

\* the items a request is made of: an item is the set of the tests it fails
ItemsOf(service) ==
    {{}} \cup {{c} : c \in ItemTests(service)} \cup {ItemTests(service)}

\* the status the task of an item ends with: that of the first test, in the
\* task's order, the item fails
RECURSIVE ItemStatus(_, _)
ItemStatus(checks, item) ==
    IF checks = <<>> THEN "Good"
    ELSE IF Head(checks)[1] \in item THEN Head(checks)[2]
    ELSE ItemStatus(Tail(checks), item)

\* the result the task of an item computes: readValue, writeValue, or the
\* body of the task of handleBrowse and handleCall
ItemResult(service, item) ==
    LET status == ItemStatus(ItemChecks(service), item)
    IN [StatusCode |-> status,
        Value |-> IF status = "Good" /\ service # "Write" THEN "value" ELSE "nil",
        SourceTimestamp |-> service = "Read" /\ status = "Good",
        ServerTimestamp |-> service = "Read"]

\* make([]T, l): every slot holds the zero value, whose StatusCode 0 is Good
ZeroResult ==
    [StatusCode |-> "Good", Value |-> "nil",
     SourceTimestamp |-> FALSE, ServerTimestamp |-> FALSE]

TimestampsToReturn == {"Source", "Server", "Both", "Neither"}

selectTimestamps(values, timestampsToReturn) ==
    [i \in DOMAIN values |->
        CASE timestampsToReturn = "Source" ->
               [values[i] EXCEPT !.ServerTimestamp = FALSE]
          [] timestampsToReturn = "Server" ->
               [values[i] EXCEPT !.SourceTimestamp = FALSE]
          [] timestampsToReturn = "Neither" ->
               [values[i] EXCEPT !.SourceTimestamp = FALSE, !.ServerTimestamp = FALSE]
          [] OTHER -> values[i]]

StoreResult_firstSlot(res, i, value) == [res EXCEPT ![1] = value]

\* results[i] = ...
StoreResult(res, i, value) == [res EXCEPT ![i] = value]

\* the handler, once the request passed its checks: the result vector, one
\* task per item in the pool, and the completion goroutine
ItemRequest(service, items, timestampsToReturn) ==
    /\ ~itemWaiter
    /\ itemReq' = [service |-> service, items |-> items,
                   timestampsToReturn |-> timestampsToReturn]
    /\ itemResults' = [i \in 1..Len(items) |-> ZeroResult]
    /\ itemWg' = Len(items)
    /\ itemSubmitted' = 1..Len(items)
    /\ itemWaiter' = TRUE
    /\ itemOut' = <<>>
    /\ UNCHANGED notItem

\* the task of item i runs in a pool worker
ItemWorker(i) ==
    /\ i \in itemSubmitted
    /\ itemSubmitted' = itemSubmitted \ {i}
    /\ itemResults' =
          StoreResult(itemResults, i, ItemResult(itemReq.service, itemReq.items[i]))
    /\ itemWg' = itemWg - 1
    /\ UNCHANGED <<itemReq, itemWaiter, itemOut>>
    /\ UNCHANGED notItem

\* the completion goroutine: wg.Wait(), then ch.Write of the response
ItemCompletion ==
    /\ itemWaiter
    /\ WaitReturns(itemWg)
    /\ itemOut' =
          Append(itemOut,
                 [kind |-> "response",
                  Results |-> IF itemReq.service = "Read"
                              THEN selectTimestamps(itemResults,
                                                    itemReq.timestampsToReturn)
                              ELSE itemResults])
    /\ itemWaiter' = FALSE
    /\ UNCHANGED <<itemReq, itemResults, itemWg, itemSubmitted>>
    /\ UNCHANGED notItem

ItemInit ==
    /\ itemReq = [service |-> "none", items |-> <<>>, timestampsToReturn |-> "Both"]
    /\ itemResults = <<>>
    /\ itemWg = 0
    /\ itemSubmitted = {}
    /\ itemWaiter = FALSE
    /\ itemOut = <<>>

ItemNext ==
    \/ \E service \in ItemServices, l \in 1..MaxItems :
          \E items \in [1..l -> ItemsOf(service)] :
            \E timestampsToReturn \in
                   IF service = "Read" THEN TimestampsToReturn ELSE {"Both"} :
               ItemRequest(service, items, timestampsToReturn)
    \/ \E i \in 1..MaxItems : ItemWorker(i)
    \/ ItemCompletion

(***************************************************************************)
(* Browse and BrowseNext paging (unnamed/part_004): the task of a Browse   *)
(* item returns the first max references and keeps the rest in a           *)
(* continuation point of the session; the task of a BrowseNext item takes  *)
(* the continuation point out of the session and pages again               *)
(***************************************************************************)
\* the clients paging at the same time, the longest reference list, and the
\* number of continuation points after which the session refuses another
MaxChains == 2
MaxRefs == 3
MaxContinuationPoints == 1

Chains == 1..MaxChains

NoCp == 0
\* a token no continuation point of the session ever had
StaleCp == MaxContinuationPoints + MaxChains + 1
CpTokens == 1..(MaxContinuationPoints + MaxChains)

\* rds: the references of the node client c browses, in the node's order
References(c, n) == [k \in 1..n |-> 10 * c + k]

\* rds[:max]
SliceTo(rds, max) == SubSeq(rds, 1, max)

SliceFrom_skipsOne(rds, max) == SubSeq(rds, max + 2, Len(rds))

\* rds[max:]
SliceFrom(rds, max) == SubSeq(rds, max + 1, Len(rds))

\* a new token: none of the session's and none a client still holds
NewCp == Min(CpTokens \ ({e[1] : e \in browseContinuationPoints}
                          \cup {chain[c].cp : c \in Chains}))

\* session.addBrowseContinuationPoint returns an error
AddFails == Cardinality(browseContinuationPoints) >= MaxContinuationPoints

\* session.addBrowseContinuationPoint(rds, max) stores the references under a
\* new token
addBrowseContinuationPoint(cps, cp, rds, max) ==
    MapPut(cps, cp, [rds |-> rds, max |-> max])

removeBrowseContinuationPoint_keeps(cps, cp) == cps

\* session.removeBrowseContinuationPoint(cp) takes the token out
removeBrowseContinuationPoint(cps, cp) == MapDel(cps, cp)

NoHeld == [rds |-> <<>>, max |-> 0]

\* the end of the task of a Browse or BrowseNext item of client c that has
\* the references rds to give: a page and a continuation point, or all
GivePage(c, from, rds, max, limited) ==
    IF limited /\ Len(rds) > max
    THEN IF AddFails
         THEN /\ chain' = [from EXCEPT ![c].status = "BadNoContinuationPoints",
                                        ![c].cp = NoCp,
                                        ![c].pc = "idle",
                                        ![c].held = NoHeld]
              /\ UNCHANGED browseContinuationPoints
         ELSE /\ browseContinuationPoints' =
                    addBrowseContinuationPoint(browseContinuationPoints, NewCp,
                                               SliceFrom(rds, max), max)
              /\ chain' = [from EXCEPT ![c].status = "Good",
                                        ![c].pages = Append(@, SliceTo(rds, max)),
                                        ![c].cp = NewCp,
                                        ![c].pc = "idle",
                                        ![c].held = NoHeld]
    ELSE /\ chain' = [from EXCEPT ![c].status = "Good",
                                   ![c].pages = Append(@, rds),
                                   ![c].cp = NoCp,
                                   ![c].pc = "idle",
                                   ![c].held = NoHeld]
         /\ UNCHANGED browseContinuationPoints

\* the task of a Browse item, from the reference list it built: client c
\* browses a node of n references with RequestedMaxReferencesPerNode = max
BrowseItem(c, n, max) ==
    /\ chain[c].pc = "idle"
    /\ GivePage(c, [chain EXCEPT ![c].full = References(c, n), ![c].max = max,
                                  ![c].pages = <<>>, ![c].released = FALSE],
                References(c, n), max, max > 0)
    /\ UNCHANGED notBr

\* the task of a BrowseNext item, up to removeBrowseContinuationPoint: client
\* c sends the continuation point cp
BrowseNextRemove(c, cp, release) ==
    /\ chain[c].pc = "idle"
    /\ chain[c].status # "none"
    /\ cp \in {chain[c].cp, StaleCp}
    /\ IF cp = NoCp
       THEN UNCHANGED brVars
       ELSE IF ~MapHas(browseContinuationPoints, cp)
            THEN /\ chain' = [chain EXCEPT ![c].status = "BadContinuationPointInvalid",
                                            ![c].cp = NoCp]
                 /\ UNCHANGED browseContinuationPoints
            ELSE /\ browseContinuationPoints' =
                       removeBrowseContinuationPoint(browseContinuationPoints, cp)
                 /\ IF release
                    THEN chain' = [chain EXCEPT ![c].released = TRUE, ![c].cp = NoCp]
                    ELSE chain' = [chain EXCEPT
                                     ![c].pc = "removed",
                                     ![c].held = MapGet(browseContinuationPoints, cp)]
    /\ UNCHANGED notBr

\* the rest of the task of the BrowseNext item: the next page
BrowseNextPage(c) ==
    /\ chain[c].pc = "removed"
    /\ GivePage(c, chain, chain[c].held.rds, chain[c].held.max, TRUE)
    /\ UNCHANGED notBr

BrInit ==
    /\ browseContinuationPoints = {}
    /\ chain = [c \in Chains |->
                  [full |-> <<>>, max |-> 0, pages |-> <<>>, cp |-> NoCp,
                   status |-> "none", released |-> FALSE, pc |-> "idle",
                   held |-> NoHeld]]

BrNext ==
    \/ \E c \in Chains, n \in 0..MaxRefs, max \in 0..MaxRefs : BrowseItem(c, n, max)
    \/ \E c \in Chains, cp \in CpTokens \cup {NoCp, StaleCp}, release \in BOOLEAN :
          BrowseNextRemove(c, cp, release)
    \/ \E c \in Chains : BrowseNextPage(c)

(***************************************************************************)
(* The tasks of BrowseNext items (unnamed/part_004, handleBrowseNext): the *)
(* items of one request or of several requests of the session, each        *)
(* naming any continuation point, the same one included                    *)
(***************************************************************************)
\* the tasks of BrowseNext items that run at the same time
MaxTasks == 2

CpTasks == 1..MaxTasks

NoTask ==
    [seq |-> 0, cp |-> NoCp, release |-> FALSE, pc |-> "idle",
     status |-> "none", held |-> NoHeld, References |-> <<>>, ContinuationPoint |-> NoCp]

\* the task of a BrowseNext item up to the ReleaseContinuationPoints test:
\* cp := req.ContinuationPoints[i], removeBrowseContinuationPoint, and the
\* slot of the results the task stores when it ends there
BrowseNextTask(t, cp, release) ==
    /\ cpTask[t].pc = "idle"
    /\ LET named == [cpTask[t] EXCEPT !.seq = 1 - @, !.cp = cp, !.release = release,
                                      !.References = <<>>,
                                      !.ContinuationPoint = NoCp, !.held = NoHeld]
       IN IF cp = NoCp
          THEN /\ cpTask' = [cpTask EXCEPT ![t] = [named EXCEPT !.status = "Good"]]
               /\ UNCHANGED browseContinuationPoints
          ELSE IF ~MapHas(browseContinuationPoints, cp)
               THEN /\ cpTask' = [cpTask EXCEPT ![t] =
                                    [named EXCEPT
                                       !.status = "BadContinuationPointInvalid"]]
                    /\ UNCHANGED browseContinuationPoints
               ELSE /\ browseContinuationPoints' =
                          removeBrowseContinuationPoint(browseContinuationPoints, cp)
                    /\ cpTask' = [cpTask EXCEPT ![t] =
                                    IF release
                                    THEN [named EXCEPT !.status = "Good"]
                                    ELSE [named EXCEPT
                                            !.pc = "removed",
                                            !.held = MapGet(browseContinuationPoints, cp)]]
    /\ UNCHANGED notCp

\* the rest of the task: the next page, and a continuation point for what
\* is left after it
BrowseNextTaskPage(t) ==
    /\ cpTask[t].pc = "removed"
    /\ LET rds == cpTask[t].held.rds
           max == cpTask[t].held.max
       IN IF Len(rds) > max
          THEN IF AddFails
               THEN /\ cpTask' = [cpTask EXCEPT ![t].pc = "idle",
                                                ![t].status = "BadNoContinuationPoints"]
                    /\ UNCHANGED browseContinuationPoints
               ELSE /\ browseContinuationPoints' =
                          addBrowseContinuationPoint(browseContinuationPoints, NewCp,
                                                     SliceFrom(rds, max), max)
                    /\ cpTask' = [cpTask EXCEPT ![t].pc = "idle",
                                                ![t].status = "Good",
                                                ![t].References = SliceTo(rds, max),
                                                ![t].ContinuationPoint = NewCp]
          ELSE /\ cpTask' = [cpTask EXCEPT ![t].pc = "idle",
                                           ![t].status = "Good",
                                           ![t].References = rds]
               /\ UNCHANGED browseContinuationPoints
    /\ UNCHANGED notCp

CpInit == cpTask = [t \in CpTasks |-> NoTask]

CpNext ==
    \/ \E n \in 2..MaxRefs : BrowseItem(1, n, 1)
    \/ \E t \in CpTasks, cp \in CpTokens \cup {NoCp}, release \in BOOLEAN :
          BrowseNextTask(t, cp, release)
    \/ \E t \in CpTasks : BrowseNextTaskPage(t)

(***************************************************************************)
(* Index ranges and writes of a variable's Value (unnamed/part_004)        *)
(***************************************************************************)
\* length of the array the variable holds, and the writing workers
ArrLen == 2
Writers == {1, 2}

\* a string is the sequence of its characters
Digits == <<"0", "1", "2", "3", "4", "5", "6", "7", "8", "9">>
IsDigit(c) == \E d \in 1..Len(Digits) : Digits[d] = c
DigitValue(c) == (CHOOSE d \in 1..Len(Digits) : Digits[d] = c) - 1

RECURSIVE ParseDigits(_, _)
ParseDigits(str, acc) ==
    IF str = <<>> THEN acc
    ELSE ParseDigits(Tail(str), acc * Len(Digits) + DigitValue(Head(str)))

\* strconv.ParseInt(str, 10, 32): an optional sign, then one or more digits
ParseInt(str) ==
    LET body == IF str # <<>> /\ Head(str) \in {"-", "+"} THEN Tail(str) ELSE str
    IN IF body = <<>> \/ \E k \in 1..Len(body) : ~IsDigit(body[k])
       THEN [ok |-> FALSE, val |-> 0]
       ELSE [ok |-> TRUE,
             val |-> IF Head(str) = "-" THEN 0 - ParseDigits(body, 0)
                     ELSE ParseDigits(body, 0)]

\* strings.Index(str, c), counted from 1; 0 when c does not occur
StringsIndex(str, c) == IndexOf(str, c)

BoundsBad(status) == [i |-> 0 - 1, j |-> 0 - 1, status |-> status]

parseBounds_loAboveHi(str, length) ==
    IF length = 0 THEN BoundsBad("BadIndexRangeNoData")
    ELSE IF str = <<>> THEN [i |-> 0, j |-> length, status |-> "Good"]
    ELSE LET index == StringsIndex(str, ":")
             lo == IF index # 0 THEN ParseInt(SubSeq(str, 1, index - 1)) ELSE ParseInt(str)
             hi == IF index # 0 THEN ParseInt(SubSeq(str, index + 1, Len(str)))
                   ELSE [ok |-> TRUE, val |-> 0 - 1]
         IN IF ~lo.ok \/ ~hi.ok THEN BoundsBad("BadIndexRangeInvalid")
            ELSE IF index # 0 /\ (hi.val < 0 \/ lo.val > hi.val)
                 THEN BoundsBad("BadIndexRangeInvalid")
            ELSE IF lo.val < 0 THEN BoundsBad("BadIndexRangeInvalid")
            ELSE IF lo.val >= length THEN BoundsBad("BadIndexRangeNoData")
            ELSE LET hi1 == IF hi.val >= length THEN length - 1 ELSE hi.val
                     hi2 == IF hi1 = 0 - 1 THEN lo.val ELSE hi1
                 IN [i |-> lo.val, j |-> hi2 + 1, status |-> "Good"]

\* parseBounds(s, length)
parseBounds(str, length) ==
    IF length = 0 THEN BoundsBad("BadIndexRangeNoData")
    ELSE IF str = <<>> THEN [i |-> 0, j |-> length, status |-> "Good"]
    ELSE LET index == StringsIndex(str, ":")
             lo == IF index # 0 THEN ParseInt(SubSeq(str, 1, index - 1)) ELSE ParseInt(str)
             hi == IF index # 0 THEN ParseInt(SubSeq(str, index + 1, Len(str)))
                   ELSE [ok |-> TRUE, val |-> 0 - 1]
         IN IF ~lo.ok \/ ~hi.ok THEN BoundsBad("BadIndexRangeInvalid")
            ELSE IF index # 0 /\ (hi.val < 0 \/ lo.val >= hi.val)
                 THEN BoundsBad("BadIndexRangeInvalid")
            ELSE IF lo.val < 0 THEN BoundsBad("BadIndexRangeInvalid")
            ELSE IF lo.val >= length THEN BoundsBad("BadIndexRangeNoData")
            ELSE LET hi1 == IF hi.val >= length THEN length - 1 ELSE hi.val
                     hi2 == IF hi1 = 0 - 1 THEN lo.val ELSE hi1
                 IN [i |-> lo.val, j |-> hi2 + 1, status |-> "Good"]

(***************************************************************************)
(* TranslateBrowsePathsToNodeIds: UAServer.follow and UAServer.target       *)
(***************************************************************************)
\* the longest relative path a client sends
MaxPathLen == 3
\* the RemainingPathIndex of a target the path ends at: math.MaxUint32 in
\* the source, a value no number of remaining elements can have; it is
\* written here as the same 32 bits read as a signed number
MaxUint32 == 0 - 1

\* the address space: four nodes, their BrowseNames and their forward
\* references in the node's order
PathNodeIds == 1..4
PathBrowseName(n) == <<"r", "a", "a", "b">>[n]
PathReferences(n) == << <<2, 3>>, <<4>>, <<4>>, <<1>> >>[n]
PathNames == {"r", "a", "b"}

\* the relative paths: the TargetNames of their elements
RECURSIVE PathsOfLength(_)
PathsOfLength(l) ==
    IF l = 0 THEN {<<>>}
    ELSE {Append(path, name) : path \in PathsOfLength(l - 1), name \in PathNames}
RelativePaths == UNION {PathsOfLength(l) : l \in 0..MaxPathLen}

\* NamespaceManager.FindNode
FindNode(present, id) == id \in present

\* UAServer.target(nodeID, element): the targets of the node's references
\* that are found and have the element's TargetName, in the node's order
target(present, nodeID, targetName) ==
    IF ~FindNode(present, nodeID) THEN [err |-> "BadNodeIDUnknown", targets |-> <<>>]
    ELSE LET targets == SelectSeq(PathReferences(nodeID),
                                  LAMBDA id : /\ FindNode(present, id)
                                              /\ PathBrowseName(id) = targetName)
         IN IF targets = <<>> THEN [err |-> "BadNoMatch", targets |-> <<>>]
            ELSE [err |-> "nil", targets |-> targets]

NoFollow == [pc |-> "idle", start |-> 0, path |-> <<>>, nodeID |-> 0, elements |-> <<>>,
             processed |-> 0, nextID |-> 0, last |-> "none",
             result |-> [status |-> "none", targets |-> <<>>]]

\* the client's call follow(start, path)
FollowCall(start, path) ==
    /\ fw.pc \in {"idle", "done"}
    /\ fw' = [NoFollow EXCEPT !.pc = "target", !.start = start, !.path = path,
                              !.nodeID = start, !.elements = path]
    /\ UNCHANGED pathNodes
    /\ UNCHANGED notPath

Returns(last, status, targets) ==
    fw' = [fw EXCEPT !.pc = "done", !.last = last,
                     !.result = [status |-> status, targets |-> targets]]

UnresolvedTarget_index(nextID, nextElements) ==
    [TargetID |-> nextID, RemainingPathIndex |-> Len(nextElements) + 1]

\* the target follow returns when the node of nextID is not found
UnresolvedTarget(nextID, nextElements) ==
    [TargetID |-> nextID,
     RemainingPathIndex |-> IF Len(nextElements) = 0 THEN MaxUint32
                            ELSE Len(nextElements)]

\* follow, one level: srv.target on the first element
FollowTarget ==
    /\ fw.pc = "target"
    /\ IF fw.elements = <<>> THEN Returns("target", "BadNothingToDo", <<>>)
       ELSE LET r == target(pathNodes, fw.nodeID, Head(fw.elements))
            IN IF r.err # "nil" THEN Returns("target", r.err, <<>>)
               ELSE IF Len(fw.elements) = 1
                    THEN fw' = [fw EXCEPT
                                  !.pc = "done", !.last = "target",
                                  !.processed = @ + 1,
                                  !.result =
                                      [status |-> "Good",
                                       targets |-> [k \in 1..Len(r.targets) |->
                                                       [TargetID |-> r.targets[k],
                                                        RemainingPathIndex |-> MaxUint32]]]]
                    ELSE fw' = [fw EXCEPT !.pc = "find", !.nextID = r.targets[1],
                                          !.processed = @ + 1]
    /\ UNCHANGED pathNodes
    /\ UNCHANGED notPath

\* follow, the same level: FindNode on the first target, then the next level
\* or the unresolved target
FollowFind ==
    /\ fw.pc = "find"
    /\ LET nextElements == Tail(fw.elements)
       IN IF FindNode(pathNodes, fw.nextID)
          THEN fw' = [fw EXCEPT !.pc = "target", !.nodeID = fw.nextID,
                                !.elements = nextElements]
          ELSE Returns("find", "Good",
                       <<UnresolvedTarget(fw.nextID, nextElements)>>)
    /\ UNCHANGED pathNodes
    /\ UNCHANGED notPath

\* a node is deleted from the namespace while the path is followed
NodeDeleted(n) ==
    /\ n \in pathNodes
    /\ pathNodes' = pathNodes \ {n}
    /\ UNCHANGED fw
    /\ UNCHANGED notPath

PathInit ==
    /\ pathNodes = PathNodeIds
    /\ fw = NoFollow

PathNext ==
    \/ \E start \in PathNodeIds, path \in RelativePaths : FollowCall(start, path)
    \/ FollowTarget
    \/ FollowFind
    \/ \E n \in PathNodeIds : NodeDeleted(n)

\* the strings and lengths parseBounds is called with
BoundsStrings ==
    { <<>>, <<"0">>, <<"1">>, <<"2">>, <<"3">>, <<"5">>, <<"9">>, <<"1", "0">>,
      <<"-", "1">>, <<"5", ":", "5">>, <<"5", ":", "4">>, <<"3", ":", "1", "0", "0">>,
      <<"0", ":", "1">>, <<"1", ":", "2">>, <<"0", ":", "9">>, <<"0", ":", "1", "0">>,
      <<"2", ":", "3">>, <<"-", "1", ":", "1">>, <<"0", ":", "-", "1">>,
      <<"-", "2", ":", "-", "1">>, <<"1", "0", ":", "1", "1">>, <<"3", ":", "2">>,
      <<"a">>, <<"1", ":", "a">>, <<":">>, <<"1", ":">>, <<":", "1">> }
BoundsLengths == {0, 1, 2, 3, 10}

\* a call parseBounds(s, length)
ParseBounds(str, length) ==
    /\ boundsIn' = [s |-> str, length |-> length]
    /\ boundsOut' = parseBounds(str, length)
    /\ UNCHANGED notBounds

BoundsInit ==
    /\ boundsIn = [s |-> <<>>, length |-> 0]
    /\ boundsOut = BoundsBad("BadIndexRangeNoData")

BoundsNext == \E str \in BoundsStrings, length \in BoundsLengths : ParseBounds(str, length)

\* strings.Split(str, sep)
RECURSIVE StringsSplit(_, _)
StringsSplit(str, sep) ==
    LET k == StringsIndex(str, sep)
    IN IF k = 0 THEN <<str>>
       ELSE <<SubSeq(str, 1, k - 1)>> \o StringsSplit(SubSeq(str, k + 1, Len(str)), sep)

\* the Go types of a Value that writeRange and readRange switch on: a
\* string is the sequence of its runes, an array the sequence of its
\* elements; every other type takes the default case
RangedTypes == {"string", "[]int32", "[]string"}
\* the cases that admit a second range ([]string, []ua.ByteString)
TwoRangeTypes == {"[]string"}
RangesAllowed(type) == IF type \in TwoRangeTypes THEN 2 ELSE 1

NilDataValue(status) == [value |-> <<>>, status |-> status]

writeRange_literalLength(type, source, written, indexRange) ==
    IF indexRange = <<>> THEN [value |-> written, status |-> "Good"]
    ELSE IF type \notin RangedTypes THEN NilDataValue("BadIndexRangeNoData")
    ELSE LET ranges == StringsSplit(indexRange, ",")
         IN IF Len(ranges) > RangesAllowed(type)
            THEN NilDataValue("BadIndexRangeNoData")
            ELSE LET b == parseBounds(ranges[1], Len(source))
                 IN IF b.status # "Good" THEN NilDataValue(b.status)
                    ELSE IF b.j - 1 - b.i # Len(written)
                         THEN NilDataValue("BadIndexRangeNoData")
                    ELSE [value |-> [k \in 1..Len(source) |->
                                        IF k > b.i /\ k < b.j THEN written[k - b.i]
                                        ELSE source[k]],
                          status |-> "Good"]

\* writeRange(source, value, indexRange): the stored value with elements
\* i..j-1 (counted from 0) replaced by the written ones; type is the Go type
\* of source.Value
writeRange(type, source, written, indexRange) ==
    IF indexRange = <<>> THEN [value |-> written, status |-> "Good"]
    ELSE IF type \notin RangedTypes THEN NilDataValue("BadIndexRangeNoData")
    ELSE LET ranges == StringsSplit(indexRange, ",")
         IN IF Len(ranges) > RangesAllowed(type)
            THEN NilDataValue("BadIndexRangeNoData")
            ELSE LET b == parseBounds(ranges[1], Len(source))
                 IN IF b.status # "Good" THEN NilDataValue(b.status)
                    ELSE IF b.j - b.i # Len(written)
                         THEN NilDataValue("BadIndexRangeNoData")
                    ELSE [value |-> [k \in 1..Len(source) |->
                                        IF k > b.i /\ k <= b.j THEN written[k - b.i]
                                        ELSE source[k]],
                          status |-> "Good"]

readRange_dropsLast(type, source, indexRange) ==
    IF indexRange = <<>> THEN [value |-> source, status |-> "Good"]
    ELSE IF type \notin RangedTypes THEN NilDataValue("BadIndexRangeNoData")
    ELSE LET ranges == StringsSplit(indexRange, ",")
         IN IF Len(ranges) > RangesAllowed(type)
            THEN NilDataValue("BadIndexRangeNoData")
            ELSE LET b == parseBounds(ranges[1], Len(source))
                     dst == SubSeq(source, b.i + 1, b.j - 1)
                     b2(ii) == parseBounds(ranges[2], Len(dst[ii]))
                 IN IF b.status # "Good" THEN NilDataValue(b.status)
                    ELSE IF Len(ranges) = 1 THEN [value |-> dst, status |-> "Good"]
                    ELSE IF \E ii \in 1..Len(dst) : b2(ii).status # "Good"
                         THEN NilDataValue(
                                  b2(Min({ii \in 1..Len(dst) :
                                              b2(ii).status # "Good"})).status)
                    ELSE [value |-> [ii \in 1..Len(dst) |->
                                        SubSeq(dst[ii], b2(ii).i + 1, b2(ii).j)],
                          status |-> "Good"]

\* readRange(source, indexRange): elements i..j-1 of the value; for an array
\* of strings a second range selects the runes i..j-1 of each element
readRange(type, source, indexRange) ==
    IF indexRange = <<>> THEN [value |-> source, status |-> "Good"]
    ELSE IF type \notin RangedTypes THEN NilDataValue("BadIndexRangeNoData")
    ELSE LET ranges == StringsSplit(indexRange, ",")
         IN IF Len(ranges) > RangesAllowed(type)
            THEN NilDataValue("BadIndexRangeNoData")
            ELSE LET b == parseBounds(ranges[1], Len(source))
                     dst == SubSeq(source, b.i + 1, b.j)
                     b2(ii) == parseBounds(ranges[2], Len(dst[ii]))
                 IN IF b.status # "Good" THEN NilDataValue(b.status)
                    ELSE IF Len(ranges) = 1 THEN [value |-> dst, status |-> "Good"]
                    ELSE IF \E ii \in 1..Len(dst) : b2(ii).status # "Good"
                         THEN NilDataValue(
                                  b2(Min({ii \in 1..Len(dst) :
                                              b2(ii).status # "Good"})).status)
                    ELSE [value |-> [ii \in 1..Len(dst) |->
                                        SubSeq(dst[ii], b2(ii).i + 1, b2(ii).j)],
                          status |-> "Good"]

\* the index ranges a client sends, and the values per Go type
ClientRanges == { <<>>, <<"0">>, <<"1">>, <<"2">>, <<"0", ":", "1">>, <<"1", ":", "0">>,
                  <<"1", ":", "2">>,
                  <<"0", ",", "0">>, <<"0", ":", "1", ",", "0">>,
                  <<"0", ",", "0", ":", "1">>, <<"0", ",", "0", ",", "0">> }
ValuesOf(type) ==
    CASE type = "string" -> {<<"x">>, <<"x", "y">>, <<"y", "x">>}
      [] type = "[]int32" -> {<<1>>, <<1, 2>>, <<2, 1>>}
      [] type = "[]string" -> {<<<<"x", "y">>>>, <<<<"x">>>>, <<<<"x", "y">>, <<"y">>>>,
                               <<<<"y">>, <<"x", "y">>>>}
      [] OTHER -> {<<1>>}

\* a write of w under range r, and the read of the same range from what the
\* write returned
WriteThenRead(w, r) ==
    /\ LET res == writeRange(rangeSource.type, rangeSource.value, w, r)
       IN IF res.status = "Good"
          THEN /\ rangeSource' = [rangeSource EXCEPT !.value = res.value]
               /\ rangeOut' = [range |-> r, written |-> w, status |-> "Good",
                               read |-> readRange(rangeSource.type, res.value, r)]
          ELSE /\ rangeSource' = rangeSource
               /\ rangeOut' = [range |-> r, written |-> w, status |-> res.status,
                               read |-> NilDataValue(res.status)]
    /\ UNCHANGED notRange

\* UAServer.readValue: a read of the stored value under range r
ReadValue(r) ==
    /\ rangeOut' = [range |-> r, written |-> <<>>, status |-> "Read",
                    read |-> readRange(rangeSource.type, rangeSource.value, r)]
    /\ UNCHANGED rangeSource
    /\ UNCHANGED notRange

\* the variable is given a value of another type
NoRangeOut ==
    [range |-> <<>>, written |-> <<>>, status |-> "none", read |-> NilDataValue("none")]
StoredOf(type) ==
    CASE type = "string" -> <<"a", "b">>
      [] type = "[]int32" -> <<0, 0>>
      [] type = "[]string" -> <<<<"a", "b">>, <<"c">>>>
      [] OTHER -> <<0>>
StoreValue(type) ==
    /\ rangeSource.type # type
    /\ rangeSource' = [type |-> type, value |-> StoredOf(type)]
    /\ rangeOut' = NoRangeOut
    /\ UNCHANGED notRange

RangeInit ==
    /\ rangeSource = [type |-> "int32", value |-> StoredOf("int32")]
    /\ rangeOut = NoRangeOut

RangeNext ==
    \/ \E type \in RangedTypes : StoreValue(type)
    \/ \E r \in ClientRanges : \E w \in ValuesOf(rangeSource.type) : WriteThenRead(w, r)
    \/ \E r \in ClientRanges : ReadValue(r)

\* the index ranges and values a client writes
IndexRanges == { <<>>, <<"0">>, <<"1">>, <<"2">>, <<"0", ":", "1">>, <<"1", ":", "0">>,
                 <<"0", ":">>, <<"-", "1">>, <<"0", ",", "1">> }
WrittenValues(w) == { [k \in 1..n |-> w] : n \in 1..ArrLen }

\* writeValue, first half: writeRange over n1.GetValue(), read under the
\* node's read lock; a bad status is returned at once
WriteValueGet(w, indexRange, written) ==
    /\ wpc[w] = "idle"
    /\ LET r == writeRange("[]int32", Value, written, indexRange)
       IN /\ wreq' = [wreq EXCEPT ![w] = [range |-> indexRange, written |-> written]]
          /\ wresult' = [wresult EXCEPT ![w] = r.value]
          /\ wstatus' = [wstatus EXCEPT ![w] = r.status]
          /\ wpc' = [wpc EXCEPT ![w] = IF r.status = "Good" THEN "set" ELSE "done"]
    /\ UNCHANGED <<Value, valueAtStart>>
    /\ UNCHANGED notWr

\* writeValue, second half: n1.SetValue(result) under the node's lock
WriteValueSet(w) ==
    /\ wpc[w] = "set"
    /\ Value' = wresult[w]
    /\ wpc' = [wpc EXCEPT ![w] = "done"]
    /\ UNCHANGED <<valueAtStart, wreq, wresult, wstatus>>
    /\ UNCHANGED notWr

WrInit ==
    /\ Value = [k \in 1..ArrLen |-> 0]
    /\ valueAtStart = Value
    /\ wpc = [w \in Writers |-> "idle"]
    /\ wreq = [w \in Writers |-> [range |-> <<>>, written |-> <<>>]]
    /\ wresult = [w \in Writers |-> <<>>]
    /\ wstatus = [w \in Writers |-> "Good"]

WrNext ==
    \/ \E w \in Writers, indexRange \in IndexRanges :
           \E written \in WrittenValues(w) : WriteValueGet(w, indexRange, written)
    \/ \E w \in Writers : WriteValueSet(w)

(***************************************************************************)
(* NodeID.String and ParseNodeIDString (ua/nodeid.go)                      *)
(***************************************************************************)
\* strings.HasPrefix
HasPrefix(str, prefix) ==
    Len(str) >= Len(prefix) /\ SubSeq(str, 1, Len(prefix)) = prefix

\* fmt.Sprintf("%d", n) for an unsigned n
RECURSIVE FormatUint(_)
FormatUint(n) ==
    IF n < Len(Digits) THEN <<Digits[n + 1]>>
    ELSE FormatUint(n \div Len(Digits)) \o <<Digits[(n % Len(Digits)) + 1]>>

\* the largest values of uint16 and of the numeric identifiers of the model
\* (uint32 in the code)
MaxUint16 == 65535
MaxNumericId == 1000000

\* strconv.ParseUint(str, 10, bitSize): digits only, no sign, and a value
\* that fits; max is the largest value of bitSize bits
RECURSIVE ParseUintFrom(_, _, _)
ParseUintFrom(str, acc, max) ==
    IF str = <<>> THEN [ok |-> TRUE, val |-> acc]
    ELSE IF ~IsDigit(Head(str)) THEN [ok |-> FALSE, val |-> 0]
    ELSE IF acc > (max - DigitValue(Head(str))) \div Len(Digits)
         THEN [ok |-> FALSE, val |-> max]
    ELSE ParseUintFrom(Tail(str), acc * Len(Digits) + DigitValue(Head(str)), max)
ParseUint(str, max) ==
    IF str = <<>> THEN [ok |-> FALSE, val |-> 0] ELSE ParseUintFrom(str, 0, max)

\* hexadecimal digits, as uuid.UUID.String writes and uuid.Parse reads them
HexDigits == <<"0", "1", "2", "3", "4", "5", "6", "7", "8", "9",
               "a", "b", "c", "d", "e", "f">>
UpperHex == <<"0", "1", "2", "3", "4", "5", "6", "7", "8", "9",
              "A", "B", "C", "D", "E", "F">>
IsHex(c) == \E d \in 1..Len(HexDigits) : c \in {HexDigits[d], UpperHex[d]}
HexValue(c) == (CHOOSE d \in 1..Len(HexDigits) : c \in {HexDigits[d], UpperHex[d]}) - 1
HexByte(b) == <<HexDigits[(b \div 16) + 1], HexDigits[(b % 16) + 1]>>
RECURSIVE HexBytes(_)
HexBytes(bytes) == IF bytes = <<>> THEN <<>> ELSE HexByte(Head(bytes)) \o HexBytes(Tail(bytes))

\* uuid.UUID.String: xxxxxxxx-xxxx-xxxx-xxxx-xxxxxxxxxxxx
UUIDString(u) ==
    HexBytes(SubSeq(u, 1, 4)) \o <<"-">> \o HexBytes(SubSeq(u, 5, 6)) \o <<"-">>
        \o HexBytes(SubSeq(u, 7, 8)) \o <<"-">> \o HexBytes(SubSeq(u, 9, 10)) \o <<"-">>
        \o HexBytes(SubSeq(u, 11, 16))

\* uuid.Parse on the standard form of 36 characters
UUIDParse(str) ==
    LET dashes == {9, 14, 19, 24}
        at == [k \in 1..16 |-> 2 * k - 1 + (IF k > 4 THEN 1 ELSE 0) + (IF k > 6 THEN 1 ELSE 0)
                                  + (IF k > 8 THEN 1 ELSE 0) + (IF k > 10 THEN 1 ELSE 0)]
    IN IF Len(str) # 36 THEN [ok |-> FALSE, val |-> <<>>]
       ELSE IF \E k \in 1..36 : IF k \in dashes THEN str[k] # "-" ELSE ~IsHex(str[k])
            THEN [ok |-> FALSE, val |-> <<>>]
       ELSE [ok |-> TRUE,
             val |-> [k \in 1..16 |-> HexValue(str[at[k]]) * 16 + HexValue(str[at[k] + 1])]]

\* base64.StdEncoding: the alphabet and the padding character
Base64 == <<"A", "B", "C", "D", "E", "F", "G", "H", "I", "J", "K", "L", "M",
            "N", "O", "P", "Q", "R", "S", "T", "U", "V", "W", "X", "Y", "Z",
            "a", "b", "c", "d", "e", "f", "g", "h", "i", "j", "k", "l", "m",
            "n", "o", "p", "q", "r", "s", "t", "u", "v", "w", "x", "y", "z",
            "0", "1", "2", "3", "4", "5", "6", "7", "8", "9", "+", "/">>
IsBase64(c) == \E d \in 1..Len(Base64) : Base64[d] = c
Base64Value(c) == (CHOOSE d \in 1..Len(Base64) : Base64[d] = c) - 1

\* base64.StdEncoding.EncodeToString
RECURSIVE EncodeToString(_)
EncodeToString(bytes) ==
    IF bytes = <<>> THEN <<>>
    ELSE IF Len(bytes) = 1
         THEN <<Base64[(bytes[1] \div 4) + 1], Base64[((bytes[1] % 4) * 16) + 1], "=", "=">>
    ELSE IF Len(bytes) = 2
         THEN <<Base64[(bytes[1] \div 4) + 1],
                Base64[((bytes[1] % 4) * 16 + bytes[2] \div 16) + 1],
                Base64[((bytes[2] % 16) * 4) + 1], "=">>
    ELSE <<Base64[(bytes[1] \div 4) + 1],
           Base64[((bytes[1] % 4) * 16 + bytes[2] \div 16) + 1],
           Base64[((bytes[2] % 16) * 4 + bytes[3] \div 64) + 1],
           Base64[(bytes[3] % 64) + 1]>> \o EncodeToString(SubSeq(bytes, 4, Len(bytes)))

\* base64.StdEncoding.DecodeString: groups of four characters, padding in
\* the last group only
RECURSIVE DecodeString(_)
DecodeString(str) ==
    IF str = <<>> THEN [ok |-> TRUE, val |-> <<>>]
    ELSE IF Len(str) < 4 THEN [ok |-> FALSE, val |-> <<>>]
    ELSE LET g == SubSeq(str, 1, 4)
             rest == SubSeq(str, 5, Len(str))
             v(k) == Base64Value(g[k])
             pad == IF g[4] # "=" THEN 0 ELSE IF g[3] # "=" THEN 1 ELSE 2
             bytes == <<v(1) * 4 + v(2) \div 16>>
                         \o (IF pad < 2 THEN <<(v(2) % 16) * 16 + v(3) \div 4>> ELSE <<>>)
                         \o (IF pad < 1 THEN <<(v(3) % 4) * 64 + v(4)>> ELSE <<>>)
         IN IF \E k \in 1..(4 - pad) : ~IsBase64(g[k]) THEN [ok |-> FALSE, val |-> <<>>]
            ELSE IF pad > 0 /\ rest # <<>> THEN [ok |-> FALSE, val |-> <<>>]
            ELSE LET r == DecodeString(rest)
                 IN IF r.ok THEN [ok |-> TRUE, val |-> bytes \o r.val]
                    ELSE [ok |-> FALSE, val |-> <<>>]

IDTypeNumeric == "Numeric"
IDTypeString == "String"
IDTypeGUID == "GUID"
IDTypeOpaque == "Opaque"

NewNodeIDNumeric(ns, id) == [IDType |-> IDTypeNumeric, NamespaceIndex |-> ns, ID |-> id]
NewNodeIDString(ns, id) == [IDType |-> IDTypeString, NamespaceIndex |-> ns, ID |-> id]
NewNodeIDGUID(ns, id) == [IDType |-> IDTypeGUID, NamespaceIndex |-> ns, ID |-> id]
NewNodeIDOpaque(ns, id) == [IDType |-> IDTypeOpaque, NamespaceIndex |-> ns, ID |-> id]
\* the nil NodeID that ParseNodeIDString returns
NilNodeID == [IDType |-> "nil", NamespaceIndex |-> 0, ID |-> <<>>]

\* NodeIDNumeric.String, NodeIDString.String, NodeIDGUID.String and
\* NodeIDOpaque.String
String(n) ==
    LET ns == IF n.NamespaceIndex = 0 THEN <<>>
              ELSE <<"n", "s", "=">> \o FormatUint(n.NamespaceIndex) \o <<";">>
    IN CASE n.IDType = IDTypeNumeric -> ns \o <<"i", "=">> \o FormatUint(n.ID)
         [] n.IDType = IDTypeString -> ns \o <<"s", "=">> \o n.ID
         [] n.IDType = IDTypeGUID -> ns \o <<"g", "=">> \o UUIDString(n.ID)
         [] n.IDType = IDTypeOpaque -> ns \o <<"b", "=">> \o EncodeToString(n.ID)

\* if id == 0 && ns == 0 { return nil }
ZeroIsNil(id, ns) == id = 0 /\ ns = 0

\* ParseNodeIDString(s)
ParseNodeIDString(str) ==
    LET hasNs == HasPrefix(str, <<"n", "s", "=">>)
        pos == StringsIndex(str, ";")
        ns == IF hasNs /\ pos # 0 THEN ParseUint(SubSeq(str, 4, pos - 1), MaxUint16)
              ELSE [ok |-> ~hasNs, val |-> 0]
        s == IF hasNs THEN SubSeq(str, pos + 1, Len(str)) ELSE str
        body == SubSeq(s, 3, Len(s))
    IN IF ~ns.ok THEN NilNodeID
       ELSE IF HasPrefix(s, <<"i", "=">>)
            THEN LET id == ParseUint(body, MaxNumericId)
                 IN IF ~id.ok THEN NilNodeID
                    ELSE IF ZeroIsNil(id.val, ns.val) THEN NilNodeID
                    ELSE NewNodeIDNumeric(ns.val, id.val)
       ELSE IF HasPrefix(s, <<"s", "=">>) THEN NewNodeIDString(ns.val, body)
       ELSE IF HasPrefix(s, <<"g", "=">>)
            THEN LET id == UUIDParse(body)
                 IN IF ~id.ok THEN NilNodeID ELSE NewNodeIDGUID(ns.val, id.val)
       ELSE IF HasPrefix(s, <<"b", "=">>)
            THEN LET id == DecodeString(body)
                 IN IF ~id.ok THEN NilNodeID ELSE NewNodeIDOpaque(ns.val, id.val)
       ELSE NilNodeID

\* structural equality of two NodeIDs
SameNodeID(a, b) ==
    /\ a.IDType = b.IDType
    /\ a.NamespaceIndex = b.NamespaceIndex
    /\ a.ID = b.ID

\* the namespace indexes and identifiers of the model
NamespaceIndexes == {0, 1, 9, 10, 255, 256, MaxUint16}
NumericIds == {0, 1, 9, 10, 85, 65536, MaxNumericId}
StringIds == { <<>>, <<"a">>, <<";">>, <<"i", "=", "1">>, <<"a", ";", "b">>,
               <<"n", "s", "=", "1", ";", "s", "=", "x">> }
Guids == { [k \in 1..16 |-> 0], [k \in 1..16 |-> 255], [k \in 1..16 |-> 16 * k + k - 17],
           [k \in 1..16 |-> (k * 37) % 256] }
OpaqueIds == { <<>>, <<0>>, <<255>>, <<97, 98>>, <<0, 255>>, <<97, 98, 99>>,
               <<255, 255, 255>>, <<97, 98, 99, 100>>, <<1, 2, 3, 4, 5>> }

\* a NodeID is written as a string and parsed back
RoundTrip(n) ==
    /\ nidValue' = n
    /\ nidText' = String(n)
    /\ nidParsed' = ParseNodeIDString(String(n))
    /\ UNCHANGED notNid

\* a string that no NodeID wrote is parsed
ParseText(str) ==
    /\ nidValue' = NilNodeID
    /\ nidText' = str
    /\ nidParsed' = ParseNodeIDString(str)
    /\ UNCHANGED notNid

Texts == { <<"n", "s", "=", "1">>, <<"n", "s", "=", "6", "5", "5", "3", "6", ";", "i", "=", "1">>,
           <<"n", "s", "=", ";", "i", "=", "1">>, <<"i", "=">>, <<"i", "=", "-", "1">>,
           <<"x", "=", "1">>, <<"g", "=", "0">>, <<"b", "=", "A">>, <<"b", "=", "*", "A", "=", "=">>,
           <<"n", "s", "=", "0", "1", ";", "i", "=", "0", "7">> }

NidInit ==
    /\ nidValue = NilNodeID
    /\ nidText = <<>>
    /\ nidParsed = NilNodeID

NidNext ==
    \/ \E ns \in NamespaceIndexes, id \in NumericIds : RoundTrip(NewNodeIDNumeric(ns, id))
    \/ \E ns \in NamespaceIndexes, id \in StringIds : RoundTrip(NewNodeIDString(ns, id))
    \/ \E ns \in NamespaceIndexes, id \in Guids : RoundTrip(NewNodeIDGUID(ns, id))
    \/ \E ns \in NamespaceIndexes, id \in OpaqueIds : RoundTrip(NewNodeIDOpaque(ns, id))
    \/ \E str \in Texts : ParseText(str)

(***************************************************************************)
(* Subscriptions, Publish and Republish (unnamed/part_004; the             *)
(* Subscription and SubscriptionManager types after spec 4.9)              *)
(***************************************************************************)
\* subscriptions the manager can hold, sequence numbers a subscription uses,
\* publish requests a session parks, and the retransmission queue's bound
MaxSubs == 2
MaxSeq == 3
MaxParked == 1
maxRetransmissionQueueLength == 2
\* the priorities and lifetime counts a CreateSubscription request asks for,
\* and the state-change notifications a session holds
MaxPriority == 1
MaxLifetimeCount == 2
MaxStateChanges == 1
Priorities == 0..MaxPriority
LifetimeCounts == 1..MaxLifetimeCount

SubIds == 1..MaxSubs
PubSessions == {1, 2}

NoSub == [exists |-> FALSE, session |-> 0, seqNum |-> 0, late |-> FALSE,
          retransmissionQueue |-> <<>>, priority |-> 0, lifetimeCount |-> 0,
          lifetimeCounter |-> 0]

\* SubscriptionManager.GetBySession and Len
GetBySession(subs, session) == {id \in SubIds : subs[id].exists /\ subs[id].session = session}
SmLen(subs) == Cardinality({id \in SubIds : subs[id].exists})

\* the retransmission queue is bounded, FIFO with head-drop
PushRetransmission(q, nm) ==
    IF Len(q) >= maxRetransmissionQueueLength THEN Append(Tail(q), nm) ELSE Append(q, nm)

\* Subscription.acknowledge(seq): the message leaves the queue if it is there
acknowledge(q, seq) ==
    [ok |-> \E k \in 1..Len(q) : q[k].SequenceNumber = seq,
     q |-> SelectSeq(q, LAMBDA nm : nm.SequenceNumber # seq)]

NextMessage_same(subs, id) == [subscriptionId |-> id, SequenceNumber |-> subs[id].seqNum]

\* the NotificationMessage a subscription packages next
NextMessage(subs, id) == [subscriptionId |-> id, SequenceNumber |-> subs[id].seqNum + 1]

\* the subscription sends its next message: the sequence number advances and
\* the message is retained for retransmission
SendNext(subs, id) ==
    [subs EXCEPT ![id].seqNum = @ + 1,
                 ![id].late = FALSE,
                 ![id].retransmissionQueue = PushRetransmission(@, NextMessage(subs, id))]

Out(op, session, kind, code, nm) ==
    [op |-> op, session |-> session, kind |-> kind, code |-> code, message |-> nm,
     Acks |-> <<>>, Results |-> <<>>]
NoMessage == [subscriptionId |-> 0, SequenceNumber |-> 0]

\* the client of a subscription sees a new (not retransmitted) message
Observe(nm) == lastSeq' = [lastSeq EXCEPT ![nm.subscriptionId] = nm.SequenceNumber]

\* handleCreateSubscription, after the session gate
CreateSubscription(session, priority, lifetimeCount) ==
    /\ session \notin closedSessions
    /\ IF \A id \in SubIds : subscriptions[id].exists
       THEN /\ subOut' = Out("CreateSubscription", session, "fault",
                             "BadTooManySubscriptions", NoMessage)
            /\ UNCHANGED <<subscriptions, lastSeq>>
       ELSE LET id == Min({i \in SubIds : ~subscriptions[i].exists})
            IN /\ subscriptions' = [subscriptions EXCEPT
                                      ![id] = [NoSub EXCEPT !.exists = TRUE,
                                                            !.session = session,
                                                            !.priority = priority,
                                                            !.lifetimeCount = lifetimeCount]]
               /\ lastSeq' = [lastSeq EXCEPT ![id] = 0]
               /\ subOut' = Out("CreateSubscription", session, "response", "Good", NoMessage)
    /\ UNCHANGED <<parked, stateChanges, closedSessions>>
    /\ UNCHANGED notSub

\* handleDeleteSubscriptions, after the session gate
DeleteSubscriptions(session, ids) ==
    /\ session \notin closedSessions
    /\ IF ids = {}
       THEN /\ subOut' = Out("DeleteSubscriptions", session, "fault", "BadNothingToDo",
                             NoMessage)
            /\ UNCHANGED <<subscriptions, parked>>
       ELSE LET subs == [id \in SubIds |->
                            IF id \in ids THEN NoSub ELSE subscriptions[id]]
            IN /\ subscriptions' = subs
               /\ parked' = IF GetBySession(subs, session) = {}
                            THEN [parked EXCEPT ![session] = 0] ELSE parked
               /\ subOut' = Out("DeleteSubscriptions", session, "response", "Good", NoMessage)
    /\ UNCHANGED <<lastSeq, stateChanges, closedSessions>>
    /\ UNCHANGED notSub

\* the subscriptions of the session that are late (have notifications ready
\* and no publish request to carry them)
LateSubs(subs, session) == {id \in GetBySession(subs, session) : subs[id].late}

TopLate_any(subs, session) == LateSubs(subs, session)

\* the late subscriptions that can come first when the session's
\* subscriptions are sorted by descending priority: sort.Slice is not stable
\* and GetBySession gives no order, so equal priorities come in any order
TopLate(subs, session) ==
    {id \in LateSubs(subs, session) :
        \A o \in LateSubs(subs, session) : subs[o].priority <= subs[id].priority}

\* the acknowledgements a Publish request can carry: <<subscription id,
\* sequence number>> each
Acks == SubIds \X (1..MaxSeq)

AckResult_alwaysGood(subs, sa) == "Good"

\* the result of one acknowledgement: sm.Get(sa.SubscriptionID), then
\* sub.acknowledge(sa.SequenceNumber)
AckResult(subs, sa) ==
    IF sa[1] \in SubIds /\ subs[sa[1]].exists
    THEN IF acknowledge(subs[sa[1]].retransmissionQueue, sa[2]).ok
         THEN "Good"
         ELSE "BadSequenceNumberUnknown"
    ELSE "BadSubscriptionIDInvalid"

\* the subscription after Subscription.acknowledge(seq): an acknowledged
\* message leaves the queue and restarts the lifetime count
Acknowledged(sub, seq) ==
    [sub EXCEPT !.retransmissionQueue = acknowledge(@, seq).q,
                !.lifetimeCounter =
                    IF acknowledge(sub.retransmissionQueue, seq).ok THEN 0 ELSE @]

\* "process sub ack's": the acknowledgements are taken in the request's
\* order, each against the queues the earlier ones left
RECURSIVE ProcessAcks(_, _)
ProcessAcks(subs, acks) ==
    IF acks = <<>>
    THEN [subs |-> subs, results |-> <<>>]
    ELSE LET sa == Head(acks)
             after == IF sa[1] \in SubIds /\ subs[sa[1]].exists
                      THEN [subs EXCEPT ![sa[1]] = Acknowledged(@, sa[2])]
                      ELSE subs
             rest == ProcessAcks(after, Tail(acks))
         IN [subs |-> rest.subs,
             results |-> <<AckResult(subs, sa)>> \o rest.results]

\* handlePublish, after the session gate; acks are the request's
\* SubscriptionAcknowledgements
Publish(session, acks) ==
    /\ session \notin closedSessions
    /\ LET subs == ProcessAcks(subscriptions, acks).subs
           acked == ProcessAcks(subscriptions, acks).results
       IN IF stateChanges[session] # <<>>
          THEN /\ subOut' = [Out("Publish", session, "statechange", "Good",
                                  Head(stateChanges[session]))
                                 EXCEPT !.Acks = acks, !.Results = acked]
               /\ stateChanges' = [stateChanges EXCEPT ![session] = Tail(@)]
               /\ subscriptions' = subs
               /\ UNCHANGED <<parked, lastSeq>>
          ELSE /\ UNCHANGED stateChanges
               /\ IF SmLen(subs) = 0
                  THEN /\ subOut' = [Out("Publish", session, "fault", "BadNoSubscription",
                                          NoMessage) EXCEPT !.Acks = acks]
                       /\ subscriptions' = subs
                       /\ UNCHANGED <<parked, lastSeq>>
                  ELSE IF LateSubs(subs, session) # {}
                       THEN \E id \in TopLate(subs, session) :
                               /\ subs[id].seqNum < MaxSeq
                               /\ subscriptions' = SendNext(subs, id)
                               /\ subOut' = [Out("Publish", session, "message", "Good",
                                                 NextMessage(subs, id))
                                                EXCEPT !.Acks = acks, !.Results = acked]
                               /\ Observe(NextMessage(subs, id))
                               /\ UNCHANGED parked
                       ELSE /\ parked[session] < MaxParked
                            /\ subscriptions' = subs
                            /\ parked' = [parked EXCEPT ![session] = @ + 1]
                            /\ subOut' = [Out("Publish", session, "parked", "Good",
                                              NoMessage)
                                             EXCEPT !.Acks = acks, !.Results = acked]
                            /\ UNCHANGED lastSeq
    /\ UNCHANGED closedSessions
    /\ UNCHANGED notSub

\* the subscription's lifetime ran out: it is deleted, its session gets the
\* state-change notification, and the parked publish requests of a session
\* left without subscriptions are drained
Expire(id) ==
    LET session == subscriptions[id].session
        subs == [subscriptions EXCEPT ![id] = NoSub]
    IN /\ Len(stateChanges[session]) < MaxStateChanges
       /\ subscriptions' = subs
       /\ stateChanges' = [stateChanges EXCEPT ![session] =
                               Append(@, [subscriptionId |-> id, SequenceNumber |-> 0])]
       /\ parked' = IF GetBySession(subs, session) = {}
                    THEN [parked EXCEPT ![session] = 0] ELSE parked
       /\ subOut' = Out("Tick", session, "deleted", "BadTimeout", NoMessage)
       /\ UNCHANGED lastSeq

LifetimeExceeded_never(sub) == FALSE

\* the lifetime counter of a subscription exceeds its lifetime count
LifetimeExceeded(sub) == sub.lifetimeCounter > sub.lifetimeCount

\* the publishing tick of a subscription; ready says that its items have
\* notifications. The next message goes to a parked publish request of the
\* session; with notifications and no request the subscription becomes late;
\* a tick that publishes nothing counts towards the lifetime
Tick(id, ready) ==
    /\ subscriptions[id].exists
    /\ IF ready /\ parked[subscriptions[id].session] > 0
       THEN /\ subscriptions[id].seqNum < MaxSeq
            /\ parked' = [parked EXCEPT ![subscriptions[id].session] = @ - 1]
            /\ subscriptions' = SendNext(subscriptions, id)
            /\ subOut' = Out("Tick", subscriptions[id].session, "message", "Good",
                             NextMessage(subscriptions, id))
            /\ Observe(NextMessage(subscriptions, id))
            /\ UNCHANGED stateChanges
       ELSE IF LifetimeExceeded([subscriptions[id] EXCEPT !.lifetimeCounter = @ + 1])
            THEN Expire(id)
            ELSE /\ subscriptions' = [subscriptions EXCEPT
                                         ![id].late = @ \/ ready,
                                         ![id].lifetimeCounter = @ + 1]
                 /\ subOut' = Out("Tick", subscriptions[id].session,
                                  IF ready THEN "late" ELSE "idle", "Good", NoMessage)
                 /\ UNCHANGED <<parked, lastSeq, stateChanges>>
    /\ UNCHANGED closedSessions
    /\ UNCHANGED notSub

ResetLifetime_keeps(subs, id) == subs

\* sub.Lock(); sub.lifetimeCounter = 0; sub.Unlock()
ResetLifetime(subs, id) == [subs EXCEPT ![id].lifetimeCounter = 0]

\* the services on the monitored items of a subscription
MonitoredItemServices ==
    {"CreateMonitoredItems", "ModifyMonitoredItems", "SetMonitoringMode",
     "SetTriggering", "DeleteMonitoredItems"}

\* handleCreateMonitoredItems, handleModifyMonitoredItems,
\* handleSetMonitoringMode, handleSetTriggering and
\* handleDeleteMonitoredItems, after the session gate, up to the validation
\* of the request, which names l items (the items themselves are not
\* modelled)
MonitoredItemsRequest(service, session, id, l) ==
    /\ session \notin closedSessions
    /\ IF ~subscriptions[id].exists
       THEN /\ subOut' = Out(service, session, "fault", "BadSubscriptionIDInvalid",
                             NoMessage)
            /\ UNCHANGED subscriptions
       ELSE /\ subscriptions' = ResetLifetime(subscriptions, id)
            /\ subOut' = IF l = 0
                         THEN Out(service, session, "fault", "BadNothingToDo", NoMessage)
                         ELSE Out(service, session, "response", "Good", NoMessage)
    /\ UNCHANGED <<parked, lastSeq, stateChanges, closedSessions>>
    /\ UNCHANGED notSub

QueueRemove_kept(q, e) == q

\* q.Remove(e) on the retransmission queue
QueueRemove(q, e) == SeqRemoveAt(q, e)

\* handleRepublish, after the session gate
Republish(session, id, seq) ==
    /\ session \notin closedSessions
    /\ IF ~subscriptions[id].exists
       THEN /\ subOut' = Out("Republish", session, "fault", "BadSubscriptionIDInvalid",
                             [subscriptionId |-> id, SequenceNumber |-> seq])
            /\ UNCHANGED subscriptions
       ELSE LET q == subscriptions[id].retransmissionQueue
            IN IF \E k \in 1..Len(q) : q[k].SequenceNumber = seq
               THEN LET e == Min({k \in 1..Len(q) : q[k].SequenceNumber = seq})
                    IN /\ subOut' = Out("Republish", session, "message", "Good", q[e])
                       /\ subscriptions' = [ResetLifetime(subscriptions, id) EXCEPT
                                               ![id].retransmissionQueue = QueueRemove(q, e)]
               ELSE /\ subOut' = Out("Republish", session, "fault",
                                     "BadMessageNotAvailable",
                                     [subscriptionId |-> id, SequenceNumber |-> seq])
                    /\ subscriptions' = ResetLifetime(subscriptions, id)
    /\ UNCHANGED <<parked, lastSeq, stateChanges, closedSessions>>
    /\ UNCHANGED notSub

\* handleCloseSession, after the session gate: the session's subscriptions
\* are deleted if the request asks for it, then the session is
CloseSession(session, deleteSubscriptions) ==
    /\ session \notin closedSessions
    /\ subscriptions' = IF deleteSubscriptions
                        THEN [id \in SubIds |->
                                 IF id \in GetBySession(subscriptions, session)
                                 THEN NoSub ELSE subscriptions[id]]
                        ELSE subscriptions
    /\ closedSessions' = closedSessions \cup {session}
    /\ subOut' = Out("CloseSession", session, "response", "Good", NoMessage)
    /\ UNCHANGED <<parked, lastSeq, stateChanges>>
    /\ UNCHANGED notSub

SubInit ==
    /\ subscriptions = [id \in SubIds |-> NoSub]
    /\ parked = [session \in PubSessions |-> 0]
    /\ lastSeq = [id \in SubIds |-> 0]
    /\ subOut = Out("none", 0, "none", "Good", NoMessage)
    /\ stateChanges = [session \in PubSessions |-> <<>>]
    /\ closedSessions = {}

\* the acknowledgement lists of up to two acknowledgements
AckLists == {<<>>} \cup {<<sa>> : sa \in Acks} \cup {<<sa, sb>> : sa \in Acks, sb \in Acks}

\* the session whose publish requests carry them
AckSession == Min(PubSessions)

\* the publish requests with their acknowledgements, and what fills the
\* retransmission queues
AckNext ==
    \/ CreateSubscription(AckSession, 0, 1)
    \/ \E acks \in AckLists : Publish(AckSession, acks)
    \/ \E id \in SubIds : Tick(id, TRUE)

\* subscriptions of either priority, the ticks that make them late and let
\* them expire, and the publish requests of their sessions
PrioNext ==
    \/ \E session \in PubSessions, priority \in Priorities :
           CreateSubscription(session, priority, 1)
    \/ \E session \in PubSessions : Publish(session, <<>>)
    \/ \E id \in SubIds : Tick(id, TRUE)

\* sessions with subscriptions and parked publish requests are closed
CloseNext ==
    \/ \E session \in PubSessions : CreateSubscription(session, 0, 1)
    \/ \E session \in PubSessions : Publish(session, <<>>)
    \/ \E id \in SubIds : Tick(id, TRUE)
    \/ \E session \in PubSessions, deleteSubscriptions \in BOOLEAN :
           CloseSession(session, deleteSubscriptions)

\* the lifetime of the subscriptions of a session: ticks with and without
\* notifications, acknowledgements of the first message, and the services on
\* monitored items
LifeNext ==
    \/ CreateSubscription(AckSession, 0, MaxLifetimeCount)
    \/ \E acks \in {<<>>} \cup {<<sa>> : sa \in SubIds \X {1}} : Publish(AckSession, acks)
    \/ \E id \in SubIds, ready \in BOOLEAN : Tick(id, ready)
    \/ \E service \in MonitoredItemServices, id \in SubIds, l \in 0..1 :
           MonitoredItemsRequest(service, AckSession, id, l)

\* two sessions create and delete subscriptions and send publish requests
SessNext ==
    \/ \E session \in PubSessions : CreateSubscription(session, 0, 1)
    \/ \E session \in PubSessions, ids \in SUBSET SubIds : DeleteSubscriptions(session, ids)
    \/ \E session \in PubSessions : Publish(session, <<>>)
    \/ \E id \in SubIds : Tick(id, TRUE)

\* one session with its subscriptions: publish requests with up to one
\* acknowledgement, and republish requests
SubNext ==
    \/ CreateSubscription(AckSession, 0, MaxLifetimeCount)
    \/ \E ids \in SUBSET SubIds : DeleteSubscriptions(AckSession, ids)
    \/ \E acks \in {<<>>} \cup {<<sa>> : sa \in Acks} : Publish(AckSession, acks)
    \/ \E id \in SubIds : Tick(id, TRUE)
    \/ \E id \in SubIds, seq \in 1..MaxSeq : Republish(AckSession, id, seq)

\* the session that owns no subscription
OtherSession == CHOOSE session \in PubSessions : session # AckSession

\* two sessions: one creates the subscriptions and is sent their messages,
\* the other names them in acknowledgements, Republish and DeleteSubscriptions
OwnNext ==
    \/ CreateSubscription(AckSession, 0, MaxLifetimeCount)
    \/ Publish(AckSession, <<>>)
    \/ \E id \in SubIds : Tick(id, TRUE)
    \/ \E id \in SubIds : DeleteSubscriptions(OtherSession, {id})
    \/ \E acks \in {<<>>} \cup {<<sa>> : sa \in Acks} : Publish(OtherSession, acks)
    \/ \E id \in SubIds, seq \in 1..MaxSeq : Republish(OtherSession, id, seq)

(***************************************************************************)
(* Properties of the project manager                                       *)
(***************************************************************************)
\* every node of the tree is found by its NodeId in the namespace index and in
\* the project manager's NodeId index, and by its InternalId
IndexesTotal ==
    \A n \in TreeNodes :
        /\ MapGet(namespaceNodes, nodes[n].NodeId) = n
        /\ MapGet(nodeIdToNodeMapper, nodes[n].NodeId) = n
        /\ MapGet(internalIdToNodeMapper, nodes[n].internalId) = n

\* the namespace index holds only nodes of the tree, under their own NodeId
NamespaceOverTree ==
    \A e \in namespaceNodes : e[2] \in TreeNodes /\ nodes[e[2]].NodeId = e[1]

\* no two children of one parent have the same BrowseName
UniqueSiblings ==
    \A p \in TreeNodes :
        \A i, j \in 1..Len(nodes[p].childs) :
            i # j => nodes[nodes[p].childs[i]].BrowseName # nodes[nodes[p].childs[j]].BrowseName

ProjectOps == {"Load", "AddNode", "RemoveNode", "SetBrowseName", "Update", "ReloadProject"}

\* C1: a project operation (Load, AddNode, RemoveNode, rename, ReloadProject)
\* that starts with every node of the tree found in the three indexes and
\* leaves a project loaded ends with every node of the tree found in them
C1_IndexesFindEveryNode ==
    [][(lastOp' \in ProjectOps /\ IndexesTotal /\ rootNode' # NoNode) => IndexesTotal']_pmVars

\* C2: whenever the ErrorOccurred trigger is fired in Unloaded, Loading,
\* Loaded or Reload it is accepted and leads to Error
C2_ErrorFromAnyState ==
    \A i \in 1..Len(fired) :
        (fired[i].trigger = triggerErrorOccured
            /\ fired[i].src \in {PROJECT_STATE_UNLOADED, PROJECT_STATE_LOADING,
                                 PROJECT_STATE_LOADED, PROJECT_STATE_RELOAD})
        => (fired[i].ok /\ fired[i].dst = PROJECT_STATE_ERROR)

treeAndIndexes == <<rootNode, nodes, entryNodes, nodeIdToNodeMapper,
                    internalIdToNodeMapper, namespaceNodes>>

CheckedOps == {"AddNode", "RemoveNode", "Save", "GetProject", "GetAllNodes",
               "GetNodeByNodeId", "GetNodeByInternalId"}

\* C3 as stated: in state Error each of AddNode, RemoveNode, Save, GetProject,
\* GetAllNodes, GetNodeByNodeId, GetNodeByInternalId and ReplaceNodeID returns
\* the recorded error and changes neither the tree nor any index
C3_ErrorStateRejectsAll ==
    [][(state = PROJECT_STATE_ERROR /\ called' \cap (CheckedOps \cup {"ReplaceNodeID"}) # {})
        => (lastErr' = currentError /\ UNCHANGED treeAndIndexes)]_pmVars

\* C3 amended: the same for the operations that call checkState, which
\* ReplaceNodeID does not
C3_ErrorStateRejectsChecked ==
    [][(state = PROJECT_STATE_ERROR /\ called' \cap CheckedOps # {})
        => (lastErr' = currentError /\ UNCHANGED treeAndIndexes)]_pmVars

\* an operation was refused in state Error while a tree was in memory
C3_Witness ==
    /\ state = PROJECT_STATE_ERROR
    /\ rootNode # NoNode
    /\ lastOp = "RemoveNode"
    /\ lastErr = currentError
    /\ currentError # "nil"

\* C10: no two children of one parent of the tree have the same BrowseName
C10_UniqueSiblingNames == UniqueSiblings

\* C11: a concurrent lookup of a node finds it in the project manager's NodeId
\* index and in the namespace index under the same NodeId: never under the
\* new NodeId in one and the old in the other, never under neither
C11_RenameAtomic ==
    rnSeen.node # NoNode => (rnSeen.pm = rnSeen.ns /\ rnSeen.pm # {})

\* C12: the NodeId of every non-root node of the tree is its parent's NodeId
\* followed by the separator and the node's own BrowseName
C12_NodeIdIsPath ==
    \A n \in TreeNodes :
        nodes[n].parent # NoNode =>
            nodes[n].NodeId = nodes[nodes[n].parent].NodeId \o <<nodes[n].BrowseName>>

\* a Channel whose parent category was renamed to "b" is under the new path
C12_Witness ==
    /\ lastOp \in {"SetBrowseName", "Update"}
    /\ \E n \in TreeNodes :
          /\ nodes[n].nodeType = NodeTypeChannel
          /\ nodes[nodes[n].parent].BrowseName = "b"
          /\ nodes[n].NodeId = <<"Root", "b", nodes[n].BrowseName>>

\* C13: a Load that follows the Unload of a loaded project, with a snapshot
\* that loads, leaves the project loaded again: state Loaded, root present,
\* every node of the tree in the indexes, the entry list holding the entries
\* of the tree, and every entry started
C13_LoadAfterUnloadLoads ==
    [][(lastOp = "Unload" /\ lastOp' = "Load" /\ state = PROJECT_STATE_LOADED
            /\ onLoading(Cur).err = "nil")
        => (/\ state' = PROJECT_STATE_LOADED
            /\ rootNode' # NoNode
            /\ IndexesTotal'
            /\ SeqToSet(entryNodes') = {n \in TreeNodes' : nodes'[n].entry}
            /\ pluginCalls' = PluginCallAll("Start", entryNodes'))]_pmVars

C15_StopBeforeDelete ==
    [][lastOp' = "RemoveNodeDelete"
        => ~ \E c \in rm.pending : c.call = "Stop" /\ c.node = rm.node]_<<pmVars, rmVars>>

PluginOps == {"LoadPlugins", "UnloadPlugins", "ReloadPlugins"}

\* C16: LoadPlugins, UnloadPlugins and ReloadPlugins run their action in
\* Loaded and leave the state Loaded; in every other state they return an
\* error, change no state and start or stop no plugin
C16_PluginOpsOnlyInLoaded ==
    [][lastOp' \in PluginOps
        => IF state = PROJECT_STATE_LOADED
           THEN /\ state' = PROJECT_STATE_LOADED
                /\ lastErr' = "nil"
                /\ pluginCalls' =
                      CASE lastOp' = "LoadPlugins" -> PluginCallAll("Start", entryNodes)
                        [] lastOp' = "UnloadPlugins" -> PluginCallAll("Stop", entryNodes)
                        [] OTHER -> PluginCallAll("Stop", entryNodes)
                                        \o PluginCallAll("Start", entryNodes)
           ELSE /\ lastErr' # "nil"
                /\ UNCHANGED <<state, currentError, treeAndIndexes>>
                /\ pluginCalls' = <<>>]_pmVars

\* C17 as stated: GetCurrentError returns the recorded error in state Error
\* and ErrProjectNotLoaded in state Unloaded
C17_GetCurrentErrorReports ==
    [][lastOp' = "GetCurrentError"
        => /\ state = PROJECT_STATE_ERROR => lastErr' = currentError
           /\ state = PROJECT_STATE_UNLOADED => lastErr' = "ErrProjectNotLoaded"]_pmVars

\* C17 amended: HasError returns the recorded error in state Error,
\* ErrProjectNotLoaded in state Unloaded and nil otherwise; GetCurrentError
\* returns the recorded error, nil when none was recorded, in every state
C17_HasErrorReports ==
    [][/\ lastOp' = "HasError"
          => /\ state = PROJECT_STATE_ERROR => lastErr' = currentError
             /\ state = PROJECT_STATE_UNLOADED => lastErr' = "ErrProjectNotLoaded"
             /\ state \notin {PROJECT_STATE_ERROR, PROJECT_STATE_UNLOADED} => lastErr' = "nil"
       /\ lastOp' = "GetCurrentError" => lastErr' = currentError]_pmVars

\* HasError was asked in state Error and returned the error recorded there
C17_Witness ==
    /\ lastOp = "HasError"
    /\ state = PROJECT_STATE_ERROR
    /\ currentError # "nil"
    /\ lastErr = currentError

(***************************************************************************)
(* Properties of the service handlers                                      *)
(***************************************************************************)
NoItemWork == submitted' = {} /\ wg' = 0 /\ ~waiter'

\* the request-specific checks request r fails
FailedValidation(r) ==
    r.fails \cup (IF r.service \in ChecksNothingToDo /\ r.l = 0 THEN {"BadNothingToDo"} ELSE {})
            \cup (IF r.service \in ChecksTooMany /\ r.l > MaxOps
                  THEN {"BadTooManyOperations"} ELSE {})

\* the outcome of the handler step for request r: (a), else (b), else (c),
\* else (d), else (e), each with no per-item work started
FirstFailingCheckDecides(r) ==
    IF r.disc
    THEN svcOut' = Abort("BadSecurityPolicyRejected") /\ NoItemWork /\ UNCHANGED sessionTokens
    ELSE IF r.token \notin sessionTokens
    THEN svcOut' = ServiceFault("BadSessionIDInvalid") /\ NoItemWork /\ UNCHANGED sessionTokens
    ELSE IF secureChannelId[r.token] = 0
    THEN /\ svcOut' = ServiceFault("BadSessionNotActivated")
         /\ NoItemWork
         /\ r.token \notin sessionTokens'
    ELSE IF secureChannelId[r.token] # r.ch
    THEN svcOut' = ServiceFault("BadSecureChannelIDInvalid") /\ NoItemWork
         /\ UNCHANGED sessionTokens
    ELSE IF FailedValidation(r) # {}
    THEN /\ \E code \in FailedValidation(r) : svcOut' = ServiceFault(code)
         /\ NoItemWork
         /\ UNCHANGED sessionTokens
    ELSE \A i \in 1..Len(svcOut') : svcOut'[i].kind = "response"

\* C4 as stated: the handler of every service decides by the first failing
\* check of (a)-(e) and starts no per-item work when one fails
C4_EveryHandlerChecksInOrder ==
    [][~waiter => FirstFailingCheckDecides(svcReq')]_svcVars

\* C4 amended: the same for the handlers of the session-bound services, that
\* is all but FindServers, GetEndpoints, CreateSession and ActivateSession
C4_SessionHandlersCheckInOrder ==
    [][(~waiter /\ svcReq'.service \in SessionServices)
        => FirstFailingCheckDecides(svcReq')]_svcVars

\* a Read with an empty item list on the wrong channel got the channel fault
C4_Witness ==
    /\ svcReq.service = "Read"
    /\ svcReq.l = 0
    /\ svcReq.fails = {"BadMaxAgeInvalid", "BadTimestampsToReturnInvalid"}
    /\ svcReq.token \in sessionTokens
    /\ secureChannelId[svcReq.token] \notin {0, svcReq.ch}
    /\ svcOut = ServiceFault("BadSecureChannelIDInvalid")

\* C5: a fan-out request that passed validation gets one response write, made
\* when every worker has completed and holding a result for every item, and
\* it does get it
C5_OneResponseAfterAllWorkers ==
    /\ [](\A i \in 1..Len(svcOut) :
            svcOut[i].kind = "response" =>
                /\ Len(svcOut) = 1
                /\ svcReq.service \in FanOutServices =>
                      (wg = 0 /\ submitted = {} /\ svcOut[i].results = 1..svcReq.l))
    /\ (waiter ~> (~waiter /\ svcOut = <<Response(1..svcReq.l)>>))

\* a Browse of MaxOps items was answered with MaxOps results
C5_Witness ==
    /\ svcReq.service = "Browse"
    /\ svcReq.l = MaxOps
    /\ svcOut = <<Response(1..MaxOps)>>

(***************************************************************************)
(* Properties of the writes of a variable                                  *)
(***************************************************************************)
\* one write applied to array v: the array afterwards
ApplyWrite(v, r) ==
    IF writeRange("[]int32", v, r.written, r.range).status = "Good"
    THEN writeRange("[]int32", v, r.written, r.range).value ELSE v

\* C6: when two workers have written the Value of one variable, the stored
\* value is what the two writes give when applied one after the other, in
\* one of the two orders
C6_WritesSerialized ==
    (\A w \in Writers : wpc[w] = "done") =>
        Value \in { ApplyWrite(ApplyWrite(valueAtStart, wreq[1]), wreq[2]),
                    ApplyWrite(ApplyWrite(valueAtStart, wreq[2]), wreq[1]) }

(***************************************************************************)
(* Properties of subscriptions, Publish and Republish                      *)
(***************************************************************************)
\* C7: a session that has no subscription has no parked publish request
C7_NoSubscriptionNoParkedRequest ==
    \A session \in PubSessions :
        GetBySession(subscriptions, session) = {} => parked[session] = 0

\* C8: a Republish for an existing subscription returns the retained message
\* with the requested sequence number and removes it from the queue, keeping
\* the others; when no such message is retained it returns
\* BadMessageNotAvailable and the queue stays as it is
C8_RepublishReturnsAndRemoves ==
    [][(subOut'.op = "Republish" /\ subscriptions[subOut'.message.subscriptionId].exists)
        => LET id == subOut'.message.subscriptionId
               seq == subOut'.message.SequenceNumber
               q == subscriptions[id].retransmissionQueue
               q1 == subscriptions'[id].retransmissionQueue
           IN IF \E k \in 1..Len(q) : q[k].SequenceNumber = seq
              THEN /\ subOut'.kind = "message"
                   /\ subOut'.message \in SeqToSet(q)
                   /\ q1 = SelectSeq(q, LAMBDA nm : nm.SequenceNumber # seq)
              ELSE /\ subOut'.kind = "fault"
                   /\ subOut'.code = "BadMessageNotAvailable"
                   /\ q1 = q]_subVars

\* message 2 of a subscription was republished and left the queue, which
\* still retains another message
C8_Witness ==
    /\ subOut.op = "Republish"
    /\ subOut.kind = "message"
    /\ subOut.message = [subscriptionId |-> 1, SequenceNumber |-> 2]
    /\ subscriptions[1].retransmissionQueue = <<[subscriptionId |-> 1, SequenceNumber |-> 3]>>

C18_CountersBumped ==
    [][/\ (~waiter /\ Resolves(svcReq')) =>
            LET t == svcReq'.token
                s == svcReq'.service
            IN /\ requestCount'[t] = requestCount[t] + 1
               /\ serviceCount'[t][s] = serviceCount[t][s] + 1
               /\ AnswersFault(svcOut') =>
                     /\ errorCount'[t] = errorCount[t] + 1
                     /\ serviceErrorCount'[t][s] = serviceErrorCount[t][s] + 1
       /\ \A t \in Tokens :
            (t \in sessionTokens \/ t \notin sessionTokens') =>
                /\ requestCount'[t] >= requestCount[t]
                /\ errorCount'[t] >= errorCount[t]
                /\ \A s \in SessionServices :
                      /\ serviceCount'[t][s] >= serviceCount[t][s]
                      /\ serviceErrorCount'[t][s] >= serviceErrorCount[t][s]
      ]_<<svcVars, cntVars>>

\* C19: the error of an item is returned in that item's slot of the result
\* vector: the request is answered with one normal response that has one slot
\* per item, and every slot holds the status of its own item, whatever the
\* other items of the request ended with
C19_ItemErrorsInline ==
    itemOut # <<>> =>
        /\ Len(itemOut) = 1
        /\ itemOut[1].kind = "response"
        /\ DOMAIN itemOut[1].Results = DOMAIN itemReq.items
        /\ \A i \in DOMAIN itemReq.items :
              itemOut[1].Results[i].StatusCode =
                  ItemStatus(ItemChecks(itemReq.service), itemReq.items[i])

\* a response whose first item failed and whose second item is Good
C19_Witness ==
    /\ itemOut # <<>>
    /\ Len(itemReq.items) = 2
    /\ itemOut[1].Results[1].StatusCode = "BadNodeIDUnknown"
    /\ itemOut[1].Results[2].StatusCode = "Good"
    /\ itemOut[1].Results[2].Value = "value"

RECURSIVE Flatten(_)
Flatten(pages) == IF pages = <<>> THEN <<>> ELSE Head(pages) \o Flatten(Tail(pages))

C21_RedeemedAtMostOnce ==
    [][\A t \in CpTasks :
         (cpTask'[t].seq # cpTask[t].seq /\ cpTask'[t].cp # NoCp) =>
            IF MapHas(browseContinuationPoints, cpTask'[t].cp)
            THEN /\ ~MapHas(browseContinuationPoints', cpTask'[t].cp)
                 /\ cpTask'[t].release =>
                       /\ cpTask'[t].pc = "idle"
                       /\ cpTask'[t].References = <<>>
                       /\ cpTask'[t].ContinuationPoint = NoCp
                 /\ ~cpTask'[t].release =>
                       /\ cpTask'[t].pc = "removed"
                       /\ cpTask'[t].held = MapGet(browseContinuationPoints, cpTask'[t].cp)
            ELSE /\ cpTask'[t].status = "BadContinuationPointInvalid"
                 /\ cpTask'[t].pc = "idle"
                 /\ cpTask'[t].References = <<>>
                 /\ browseContinuationPoints' = browseContinuationPoints
      ]_<<brVars, cpVars>>

\* two tasks named the same continuation point while the first was still
\* running: the first took it, the second was answered
\* BadContinuationPointInvalid
C21_Witness ==
    /\ cpTask[1].cp # NoCp
    /\ cpTask[2].cp = cpTask[1].cp
    /\ cpTask[1].pc = "removed"
    /\ cpTask[1].held.rds # <<>>
    /\ cpTask[2].status = "BadContinuationPointInvalid"

\* the result the acknowledgement i of a request is due, from the queues as
\* the request found them
AckDue(subs, acks, i) ==
    IF ~(acks[i][1] \in SubIds /\ subs[acks[i][1]].exists)
    THEN "BadSubscriptionIDInvalid"
    ELSE IF /\ \E k \in DOMAIN subs[acks[i][1]].retransmissionQueue :
                  subs[acks[i][1]].retransmissionQueue[k].SequenceNumber = acks[i][2]
            /\ \A j \in 1..(i - 1) : acks[j] # acks[i]
         THEN "Good"
         ELSE "BadSequenceNumberUnknown"

AcksProcessed(acks) ==
    /\ DOMAIN subOut'.Results = DOMAIN acks
    /\ \A i \in DOMAIN acks :
          /\ subOut'.Results[i] = AckDue(subscriptions, acks, i)
          /\ AckDue(subscriptions, acks, i) = "Good" =>
                \A k \in DOMAIN subscriptions'[acks[i][1]].retransmissionQueue :
                    subscriptions'[acks[i][1]].retransmissionQueue[k].SequenceNumber
                        # acks[i][2]

\* C22: a Publish request that is answered with a PublishResponse, or parked
\* to be answered with one, carries one result per acknowledgement, in the
\* request's order: Good when the named subscription retained the sequence
\* number (the message has left its queue when the request is serviced or
\* parked), BadSequenceNumberUnknown when it did not,
\* BadSubscriptionIDInvalid when the subscription does not exist
C22_PublishReturnsAckResults ==
    [][(subOut'.op = "Publish" /\ subOut'.kind # "fault") =>
          AcksProcessed(subOut'.Acks)]_subVars

\* a Publish request that acknowledged the same retained message twice and
\* was serviced at once by a late subscription
C22_Witness ==
    /\ subOut.op = "Publish"
    /\ subOut.kind = "message"
    /\ subOut.Results = <<"Good", "BadSequenceNumberUnknown">>

\* C23: a Publish request that finds no pending state-change notification
\* on its session (and a server that has subscriptions) is serviced by a late
\* subscription of the session that no other late subscription of the
\* session exceeds in priority, and is parked on the session when none of
\* the session's subscriptions is late
C23_ServicedInPriorityOrder ==
    [][(/\ subOut'.op = "Publish"
        /\ stateChanges[subOut'.session] = <<>>
        /\ SmLen(subscriptions) > 0) =>
          LET session == subOut'.session
              ready == LateSubs(subscriptions, session)
              id == subOut'.message.subscriptionId
          IN IF ready = {}
             THEN /\ subOut'.kind = "parked"
                  /\ parked'[session] = parked[session] + 1
                  /\ \A o \in SubIds : subscriptions'[o].seqNum = subscriptions[o].seqNum
             ELSE /\ subOut'.kind = "message"
                  /\ id \in ready
                  /\ \A o \in ready :
                        subscriptions[o].priority <= subscriptions[id].priority
                  /\ ~subscriptions'[id].late
                  /\ parked'[session] = parked[session]]_subVars

\* a publish request was serviced by a subscription while a subscription of
\* lower priority of the same session stays late
C23_Witness ==
    /\ subOut.op = "Publish"
    /\ subOut.kind = "message"
    /\ \E o \in LateSubs(subscriptions, subOut.session) :
          subscriptions[o].priority < subscriptions[subOut.message.subscriptionId].priority

\* C24: after CloseSession with deleteSubscriptions = true the session has no
\* subscription and no parked publish request of the session is left
C24_CloseSessionDrains ==
    [][\A session \in PubSessions :
          CloseSession(session, TRUE) =>
              /\ GetBySession(subscriptions', session) = {}
              /\ parked'[session] = 0]_subVars

\* C25: a publishing tick in which the subscription publishes nothing adds
\* one to its lifetimeCounter, and deletes the subscription when the counter
\* then exceeds lifetimeCount; an acknowledgement the subscription accepts
\* and every request of the five monitored-item services that names the
\* subscription put the counter back to zero; the counter of a subscription
\* never exceeds its lifetimeCount
C25_LifetimeCounter ==
    [][\A id \in SubIds :
          /\ (subOut'.op = "Tick" /\ subscriptions[id].exists) =>
                \A ready \in BOOLEAN :
                    (Tick(id, ready) /\ subOut'.kind # "message") =>
                        IF subscriptions[id].lifetimeCounter + 1
                               > subscriptions[id].lifetimeCount
                        THEN ~subscriptions'[id].exists
                        ELSE /\ subscriptions'[id].exists
                             /\ subscriptions'[id].lifetimeCounter
                                    = subscriptions[id].lifetimeCounter + 1
          /\ (subOut'.op = "Tick" /\ subscriptions[id].exists
                  /\ ~subscriptions'[id].exists) =>
                subscriptions[id].lifetimeCounter + 1 > subscriptions[id].lifetimeCount
          /\ (subOut'.op \in MonitoredItemServices /\ subscriptions[id].exists) =>
                \A l \in 0..1 :
                    MonitoredItemsRequest(subOut'.op, subOut'.session, id, l) =>
                        subscriptions'[id].lifetimeCounter = 0
          /\ (subOut'.op = "Publish" /\ subscriptions[id].exists) =>
                \A i \in DOMAIN subOut'.Results :
                    (subOut'.Acks[i][1] = id /\ subOut'.Results[i] = "Good") =>
                        subscriptions'[id].lifetimeCounter = 0
          /\ subscriptions'[id].exists =>
                subscriptions'[id].lifetimeCounter <= subscriptions'[id].lifetimeCount
      ]_subVars

\* a request on the monitored items of a late subscription, whose ticks had
\* counted, left its lifetimeCounter at zero
C25_Witness ==
    /\ subOut.op = "SetTriggering"
    /\ subOut.code = "BadNothingToDo"
    /\ \E id \in GetBySession(subscriptions, subOut.session) :
          /\ subscriptions[id].late
          /\ subscriptions[id].lifetimeCounter = 0
          /\ subscriptions[id].retransmissionQueue # <<>>

C27_FailedUpdateChangesNothing ==
    [][updOut'.fieldErrors # {} =>
          /\ updNode'.BrowseName = updNode.BrowseName
          /\ updNode'.DisplayName = updNode.DisplayName
          /\ updNode'.Description = updNode.Description
          /\ updNode'.NodeId = updNode.NodeId
          /\ \A k \in PluginFields : updNode'.properties[k] = updNode.properties[k]
      ]_updVars

\* an Update that was given a new BrowseName, a new DisplayName and a new
\* value for one property, all valid, and a value its plugin rejects
C27_Witness ==
    /\ updOut.fieldErrors = {<<"Q", "ErrInvalidValue">>}
    /\ updOut.validFields =
           {<<"BrowseName", "b">>, <<"DisplayName", "d">>, <<"P", "1">>}
    /\ updNode.BrowseName = "a"
    /\ updNode.DisplayName = "a"
    /\ updNode.properties["P"].Value = "0"

\* C28: no operation of the project manager panics in a state reached
\* through Load, Unload, ReloadProject, AddNode and RemoveNode, the states
\* without a root node (Unloaded, after Unload) included
C28_NoOperationPanics == lastErr # "panic"

\* C29: when writeRange accepts the value w for the index range r, reading
\* the range r from what it returned yields exactly w
C29_ReadBackYieldsWritten ==
    rangeOut.status = "Good" =>
        /\ rangeOut.read.status = "Good"
        /\ rangeOut.read.value = rangeOut.written

\* C30: parsing the string form of a NodeID gives the NodeID back, for each
\* of the four variants and every namespace index
C30_ParseOfStringIsIdentity ==
    nidValue.IDType # NilNodeID.IDType => SameNodeID(nidParsed, nidValue)

\* C31: the NodeId index and the InternalId index of the project manager
\* hold entries only for nodes of the ownership tree, so that a node removed
\* by RemoveNode, and each of its descendants, is found by neither lookup
C31_IndexesHoldOnlyTreeNodes ==
    /\ \A e \in nodeIdToNodeMapper : e[2] \in TreeNodes
    /\ \A e \in internalIdToNodeMapper : e[2] \in TreeNodes

\* C32: a Publish acknowledgement, a Republish or a DeleteSubscriptions of
\* one session leaves every subscription of another session in place, with
\* its retransmission queue and its lifetime counter as they were
C32_OnlyOwnSubscriptions ==
    [][\A id \in SubIds :
          (/\ subscriptions[id].exists
           /\ subOut'.op \in {"Publish", "Republish", "DeleteSubscriptions"}
           /\ subOut'.session # subscriptions[id].session)
          => /\ subscriptions'[id].exists
             /\ subscriptions'[id].retransmissionQueue =
                    subscriptions[id].retransmissionQueue
             /\ subscriptions'[id].lifetimeCounter = subscriptions[id].lifetimeCounter
      ]_subVars

LoadStepRan ==
    \E k \in 1..Len(fired') : fired'[k].trigger = triggerLoadProject /\ fired'[k].ok

C34_RemoveStopsEachEntry ==
    [][(lastOp' = "RemoveNode" /\ lastErr' = "nil") =>
          \A E \in TreeNodes :
              nodes[E].entry =>
                  LET stops == {k \in 1..Len(pluginCalls') :
                                   pluginCalls'[k] = [call |-> "Stop", node |-> E]}
                  IN IF E \notin TreeNodes'
                     THEN /\ E \notin SeqToSet(entryNodes')
                          /\ Cardinality(stops) = 1
                     ELSE /\ E \in SeqToSet(entryNodes') <=> E \in SeqToSet(entryNodes)
                          /\ stops = {}
      ]_pmVars

\* C35: an AddNode that fails leaves the project as it was: the children of
\* every node, the namespace index, the NodeId index, the InternalId index and
\* the entry list are unchanged, and no plugin is started
C35_FailedAddNodeChangesNothing ==
    [][(lastOp' = "AddNode" /\ lastErr' # "nil") =>
          /\ rootNode' = rootNode
          /\ nodes' = nodes
          /\ namespaceNodes' = namespaceNodes
          /\ nodeIdToNodeMapper' = nodeIdToNodeMapper
          /\ internalIdToNodeMapper' = internalIdToNodeMapper
          /\ entryNodes' = entryNodes
          /\ \A k \in 1..Len(pluginCalls') : pluginCalls'[k].call # "Start"
      ]_pmVars

\* an AddNode has been rejected by the namespace index
C35_Witness == lastOp = "AddNode" /\ lastErr = "BadNodeIdExists"

\* C36: an Update calls pluginProps.UpdateProps once when the value of some
\* plugin property changed and not at all otherwise, and the node is not
\* marked as being updated when it returns
C36_OneUpdatePropsPerChange ==
    [][/\ updOut'.UpdateProps =
              IF \E k \in PluginFields :
                     updNode'.properties[k].Value # updNode.properties[k].Value
              THEN 1 ELSE 0
       /\ ~updNode'.isUpdating
      ]_updVars

\* an index range of the form lo:hi with one dimension, and its numbers
IsLoHi(r) == StringsIndex(r, ":") # 0 /\ StringsIndex(r, ",") = 0
RangeLo(r) == ParseInt(SubSeq(r, 1, StringsIndex(r, ":") - 1)).val
RangeHi(r) == ParseInt(SubSeq(r, StringsIndex(r, ":") + 1, Len(r))).val
\* the elements at the indices a..b (counted from 0) of a sequence
Elements(s, a, b) == SubSeq(s, a + 1, b + 1)
\* a read under a range lo:hi has given a value
ReadLoHi == IsLoHi(rangeOut.range) /\ rangeOut.read.status = "Good"

\* C37, as stated: a read under the range lo:hi returns the elements at the
\* indices lo, ..., hi-1, hi clamped to len-1
C37_ReadsLoToHiMinusOne ==
    ReadLoHi =>
        rangeOut.read.value =
            Elements(rangeSource.value, RangeLo(rangeOut.range),
                     Min({RangeHi(rangeOut.range), Len(rangeSource.value) - 1}) - 1)

\* C37: a read under the range lo:hi returns the elements at the indices
\* lo, ..., min(hi, len-1), the one at hi included
C37_ReadsLoToHi ==
    ReadLoHi =>
        rangeOut.read.value =
            Elements(rangeSource.value, RangeLo(rangeOut.range),
                     Min({RangeHi(rangeOut.range), Len(rangeSource.value) - 1}))

\* a read under a range whose hi is beyond the last element
C37_Witness ==
    /\ rangeOut.status = "Read"
    /\ rangeOut.range = <<"1", ":", "2">>
    /\ rangeSource.type = "[]int32"
    /\ rangeOut.read = [value |-> <<rangeSource.value[2]>>, status |-> "Good"]

\* the last write was under a range lo:hi
WroteLoHi == rangeOut'.status \notin {"none", "Read"} /\ IsLoHi(rangeOut'.range)

\* C38, as stated: a write under the range lo:hi whose value has a length
\* other than hi - lo is rejected and leaves the stored value as it was
C38_WriteNeedsHiMinusLo ==
    [][(/\ WroteLoHi
        /\ Len(rangeOut'.written) # RangeHi(rangeOut'.range) - RangeLo(rangeOut'.range))
          => /\ rangeOut'.status # "Good"
             /\ rangeSource' = rangeSource
      ]_rangeVars

\* C38: a write under the range lo:hi whose value has a length other than
\* min(hi, len-1) - lo + 1 is rejected and leaves the stored value as it was
C38_WriteNeedsInclusiveLength ==
    [][(/\ WroteLoHi
        /\ Len(rangeOut'.written) #
               Min({RangeHi(rangeOut'.range), Len(rangeSource.value) - 1})
                   - RangeLo(rangeOut'.range) + 1)
          => /\ rangeOut'.status # "Good"
             /\ rangeSource' = rangeSource
      ]_rangeVars

\* a write of one element under the range 0:1 was rejected
C38_Witness ==
    /\ rangeOut.range = <<"0", ":", "1">>
    /\ Len(rangeOut.written) = 1
    /\ rangeOut.status = "BadIndexRangeNoData"
    /\ rangeSource.type = "[]int32"

\* the numbers of an index range "lo" or "lo:hi", the empty range being the
\* whole value
BoundsHasHi(str) == StringsIndex(str, ":") # 0
BoundsLo(str) ==
    IF str = <<>> THEN [ok |-> TRUE, val |-> 0]
    ELSE IF BoundsHasHi(str) THEN ParseInt(SubSeq(str, 1, StringsIndex(str, ":") - 1))
    ELSE ParseInt(str)
BoundsHi(str) ==
    IF BoundsHasHi(str) THEN ParseInt(SubSeq(str, StringsIndex(str, ":") + 1, Len(str)))
    ELSE [ok |-> TRUE, val |-> 0]
WellFormed(str) == BoundsLo(str).ok /\ BoundsHi(str).ok
\* the classification by the numbers: lo < 0, hi < 0 or lo >= hi is invalid,
\* lo >= len has no data
ByNumbers(str, length) ==
    IF \/ BoundsLo(str).val < 0
       \/ BoundsHasHi(str) /\ (BoundsHi(str).val < 0 \/ BoundsLo(str).val >= BoundsHi(str).val)
    THEN "BadIndexRangeInvalid"
    ELSE IF BoundsLo(str).val >= length THEN "BadIndexRangeNoData"
    ELSE "Good"

\* C39, as stated: parseBounds gives BadIndexRangeInvalid when lo < 0, hi < 0
\* or lo >= hi, BadIndexRangeNoData when lo >= len, and Good otherwise
C39_ClassifiesByNumbers ==
    WellFormed(boundsIn.s) => boundsOut.status = ByNumbers(boundsIn.s, boundsIn.length)

\* C39: parseBounds gives BadIndexRangeNoData for the length 0 whatever the
\* range is; for a longer value it gives BadIndexRangeInvalid when a number
\* does not parse, lo < 0, hi < 0 or lo >= hi, BadIndexRangeNoData when
\* lo >= len, and otherwise Good with the pair (lo, min(hi, len-1) + 1), a
\* single index lo giving (lo, lo + 1) and the empty range (0, len)
C39_ClassifiesLengthFirst ==
    LET str == boundsIn.s
        length == boundsIn.length
    IN /\ boundsOut.status =
              IF length = 0 THEN "BadIndexRangeNoData"
              ELSE IF ~WellFormed(str) THEN "BadIndexRangeInvalid"
              ELSE ByNumbers(str, length)
       /\ boundsOut.status = "Good" =>
              /\ boundsOut.i = BoundsLo(str).val
              /\ boundsOut.j = IF str = <<>> THEN length
                               ELSE IF BoundsHasHi(str)
                                    THEN Min({BoundsHi(str).val, length - 1}) + 1
                                    ELSE BoundsLo(str).val + 1
       /\ (str \in {<<"5", ":", "5">>, <<"5", ":", "4">>} /\ length = 10)
              => boundsOut.status = "BadIndexRangeInvalid"
       /\ (str = <<"1", "0">> /\ length = 10) => boundsOut.status = "BadIndexRangeNoData"
       /\ (str = <<>> /\ length = 0) => boundsOut.status = "BadIndexRangeNoData"
       /\ (str = <<"3", ":", "1", "0", "0">> /\ length = 10)
              => boundsOut = [i |-> 3, j |-> 10, status |-> "Good"]

\* parseBounds("3:100", 10) has returned
C39_Witness ==
    /\ boundsIn = [s |-> <<"3", ":", "1", "0", "0">>, length |-> 10]
    /\ boundsOut = [i |-> 3, j |-> 10, status |-> "Good"]

\* C40: when an element before the last one of a relative path gives a
\* target whose node is not found, follow returns that one target, with
\* RemainingPathIndex being the number of elements of the path that were
\* not processed
C40_RemainingPathIndexIsRest ==
    (fw.pc = "done" /\ fw.last = "find") =>
        /\ fw.processed < Len(fw.path)
        /\ fw.result =
               [status |-> "Good",
                targets |-> <<[TargetID |-> fw.nextID,
                               RemainingPathIndex |-> Len(fw.path) - fw.processed]>>]

\* the first element of a path of three gave a target that was then deleted
C40_Witness ==
    /\ fw.pc = "done" /\ fw.last = "find"
    /\ Len(fw.path) = 3 /\ fw.processed = 1
    /\ fw.nextID \notin pathNodes
    /\ fw.result.targets = <<[TargetID |-> fw.nextID, RemainingPathIndex |-> 2]>>

(***************************************************************************)
(* Specifications                                                          *)
(***************************************************************************)
vars == <<pmVars, svcVars, wrVars, subVars, rnVars, rmVars, cntVars, itemVars, brVars, cpVars,
          actVars, updVars, rangeVars, nidVars, boundsVars, pathVars>>

Init ==
    /\ PMInit /\ SvcInit /\ WrInit /\ SubInit /\ RnInit /\ RmInit /\ CntInit /\ ItemInit
    /\ BrInit /\ CpInit /\ ActInit /\ UpdInit /\ RangeInit /\ NidInit
    /\ BoundsInit /\ PathInit

\* publish requests and the priorities of the subscriptions
PrioSpec == Init /\ [][PrioNext]_vars

\* sessions that are closed with and without their subscriptions
CloseSpec == Init /\ [][CloseNext]_vars

\* the lifetime of subscriptions
LifeSpec == Init /\ [][LifeNext]_vars

\* sessions are created, activated over a channel, used and closed
ActSpec == Init /\ [][ActNext]_vars

\* relative paths are followed while nodes are deleted
PathSpec == Init /\ [][PathNext]_vars

\* index ranges are parsed against lengths
BoundsSpec == Init /\ [][BoundsNext]_vars

\* NodeIDs are written as strings and parsed back
NidSpec == Init /\ [][NidNext]_vars

\* values are written and read back through index ranges
RangeSpec == Init /\ [][RangeNext]_vars

\* a node is updated through field maps
UpdSpec == Init /\ [][UpdNext]_vars

\* the subscriptions and publish requests of two sessions
SessSpec == Init /\ [][SessNext]_vars

\* categories removed with their channels, channels added
EntSpec == Init /\ [][EntNext]_vars

\* two sessions naming each other's subscriptions
OwnSpec == Init /\ [][OwnNext]_vars

\* publish requests and their acknowledgements
AckSpec == Init /\ [][AckNext]_vars

\* the tasks of BrowseNext items naming the session's continuation points
CpSpec == Init /\ [][CpNext]_vars

\* Browse and BrowseNext paging through the references of a node
BrSpec == Init /\ [][BrNext]_vars

\* the items of one request and its result vector
ItemSpec == Init /\ [][ItemNext]_vars

\* the handlers and the sessions' diagnostics counters
CntSpec == Init /\ [][CntNext]_vars

\* the project manager and its tree
PMSpec == Init /\ [][PMNext]_vars

\* the service handlers of one request at a time
SvcSpec == Init /\ [][SvcNext]_vars

\* two workers writing the Value of one variable
WrSpec == Init /\ [][WrNext]_vars

\* subscriptions, publish requests and republish of one session
SubSpec == Init /\ [][SubNext]_vars

\* renames as their separate steps, with concurrent lookups
RnSpec == Init /\ [][RnNext]_vars

\* RemoveNode as its separate steps, with the goroutines it launches
RmSpec == Init /\ [][RmNext]_vars

\* the same, with the worker pool running every submitted task and the
\* completion goroutine being scheduled
SvcFairSpec ==
    SvcSpec /\ \A i \in 1..(MaxOps + 1) : WF_vars(Worker(i))
            /\ WF_vars(Completion)

====
